---- MODULE Spec2Model ----
(***************************************************************************)
(* State-machine model of the MapboxExample component (location search,    *)
(* request coordination and camera sequencing).  Line numbers in comments  *)
(* refer to src/unnamed/part_002.                                          *)
(*                                                                         *)
(* The component runs on a single event loop.  Every action below is one   *)
(* task of that loop: a user event handler together with the re-render and *)
(* the effects it triggers, or the continuation of an async function after *)
(* one of its awaits.                                                      *)
(***************************************************************************)
EXTENDS Integers, Sequences, FiniteSets, TLC

(***************************************************************************)
(* Bounds of the model.                                                    *)
(***************************************************************************)
MaxRequests == 2  \* suggestion and resolve requests started in one run
MaxGen == 3       \* largest camera generation reached in one run
MaxTicks == 1     \* clock advances in one run

(***************************************************************************)
(* Program constants.                                                      *)
(***************************************************************************)
CACHE_TTL_MS == 600000

NoCtl == 0        \* a null controller reference

\* The rows of the result list a click is modelled for: the first ones.
MaxRow == 2

(***************************************************************************)
(* Inputs: the query strings typed in one run, and what the static tables  *)
(* of the component say about them.                                        *)
(***************************************************************************)
\* The last one is spelled like a key of the retrieve-by-id entries (line 1672).
Queries == {"", "q", "5", "lon", "london", "tokyo", "350 5th ave", "msg", "retrieve:mbx.5"}

\* query.trim().toLowerCase() of the queries above is the query itself.
trimLength(q) ==
  CASE q = "" -> 0
    [] q \in {"q", "5"} -> 1
    [] q = "lon" -> 3
    [] q = "london" -> 6
    [] q = "tokyo" -> 5
    [] q = "350 5th ave" -> 11
    [] q = "msg" -> 3
    [] q = "retrieve:mbx.5" -> 14

tokenCount(q) == IF q = "350 5th ave" THEN 3 ELSE 1

\* The text of a query, of a name or of a subtitle, one string per character.
characters(q) ==
  CASE q = "" -> <<>>
    [] q = "q" -> <<"q">>
    [] q = "5" -> <<"5">>
    [] q = "lon" -> <<"l", "o", "n">>
    [] q = "london" -> <<"l", "o", "n", "d", "o", "n">>
    [] q = "tokyo" -> <<"t", "o", "k", "y", "o">>
    [] q = "350 5th ave" -> <<"3", "5", "0", " ", "5", "t", "h", " ", "a", "v", "e">>
    [] q = "msg" -> <<"m", "s", "g">>
    [] q = "retrieve:mbx.5" -> <<"r", "e", "t", "r", "i", "e", "v", "e", ":", "m", "b", "x", ".", "5">>
    [] q = "dubai" ->
         <<"d", "u", "b", "a", "i">>
    [] q = "dubai oman" ->
         <<"d", "u", "b", "a", "i", " ", "o", "m", "a", "n">>
    [] q = "Dubai" ->
         <<"D", "u", "b", "a", "i">>
    [] q = "Dubai, United Arab Emirates" ->
         <<"D", "u", "b", "a", "i", ",", " ", "U", "n", "i", "t", "e", "d", " ", "A", "r", "a", "b", " ", "E", "m", "i", "r", "a", "t", "e", "s">>
    [] q = "Dubai, India" ->
         <<"D", "u", "b", "a", "i", ",", " ", "I", "n", "d", "i", "a">>
    [] q = "Dubai, Oman" ->
         <<"D", "u", "b", "a", "i", ",", " ", "O", "m", "a", "n">>
    [] q = "Dubailand" ->
         <<"D", "u", "b", "a", "i", "l", "a", "n", "d">>
    [] q = "Dubailand, Dubai, United Arab Emirates" ->
         <<"D", "u", "b", "a", "i", "l", "a", "n", "d", ",", " ", "D", "u", "b", "a", "i", ",", " ", "U", "n", "i", "t", "e", "d", " ", "A", "r", "a", "b", " ", "E", "m", "i", "r", "a", "t", "e", "s">>
    [] q = "Dubai Mall" ->
         <<"D", "u", "b", "a", "i", " ", "M", "a", "l", "l">>
    [] q = "Dubai Mall, Dubai, United Arab Emirates" ->
         <<"D", "u", "b", "a", "i", " ", "M", "a", "l", "l", ",", " ", "D", "u", "b", "a", "i", ",", " ", "U", "n", "i", "t", "e", "d", " ", "A", "r", "a", "b", " ", "E", "m", "i", "r", "a", "t", "e", "s">>
    [] q = "350 5th Ave" ->
         <<"3", "5", "0", " ", "5", "t", "h", " ", "A", "v", "e">>
    [] q = "350 5th Ave, New York, United States" ->
         <<"3", "5", "0", " ", "5", "t", "h", " ", "A", "v", "e", ",", " ", "N", "e", "w", " ", "Y", "o", "r", "k", ",", " ", "U", "n", "i", "t", "e", "d", " ", "S", "t", "a", "t", "e", "s">>
    [] q = "5th Ave" ->
         <<"5", "t", "h", " ", "A", "v", "e">>
    [] q = "5th Ave, New York, United States" ->
         <<"5", "t", "h", " ", "A", "v", "e", ",", " ", "N", "e", "w", " ", "Y", "o", "r", "k", ",", " ", "U", "n", "i", "t", "e", "d", " ", "S", "t", "a", "t", "e", "s">>
    [] q = "Empire State Building" ->
         <<"E", "m", "p", "i", "r", "e", " ", "S", "t", "a", "t", "e", " ", "B", "u", "i", "l", "d", "i", "n", "g">>
    [] q = "350 5th Ave, New York, NY, USA" ->
         <<"3", "5", "0", " ", "5", "t", "h", " ", "A", "v", "e", ",", " ", "N", "e", "w", " ", "Y", "o", "r", "k", ",", " ", "N", "Y", ",", " ", "U", "S", "A">>

\* The letters toLowerCase changes, and what it makes of them.
Letters ==
  [ lower |-> <<"a","b","c","d","e","f","g","h","i","j","k","l","m","n","o","p","q","r","s","t","u","v","w","x","y","z">>,
    upper |-> <<"A","B","C","D","E","F","G","H","I","J","K","L","M","N","O","P","Q","R","S","T","U","V","W","X","Y","Z">> ]

Digit == {"0", "1", "2", "3", "4", "5", "6", "7", "8", "9"}

\* \w and \s of the regular expressions
WordChar ==
  Digit \cup {Letters.lower[i] : i \in 1..26} \cup {Letters.upper[i] : i \in 1..26} \cup {"_"}

WhiteSpace == {" ", "\t"}

\* String.prototype.trim
trim(text) ==
  LET inked == {i \in 1..Len(text) : text[i] \notin WhiteSpace}
      first == CHOOSE i \in inked : \A j \in inked : i <= j
      last == CHOOSE i \in inked : \A j \in inked : j <= i
  IN IF inked = {} THEN <<>> ELSE SubSeq(text, first, last)

\* String.prototype.toLowerCase, character by character
lowerCase(text) ==
  [i \in 1..Len(text) |->
     IF \E k \in 1..26 : Letters.upper[k] = text[i]
     THEN Letters.lower[CHOOSE k \in 1..26 : Letters.upper[k] = text[i]]
     ELSE text[i]]

\* /\b(w1|w2|...)\b/.test(q): some alternative occurs in q between two word
\* boundaries; \b is a position with a word character on exactly one side.
wordTest(words, q) ==
  LET isWord(k) == k \in 1..Len(q) /\ q[k] \in WordChar
      boundary(k) == isWord(k - 1) # isWord(k)
  IN \E i \in 1..Len(q) : \E j \in i..Len(q) :
        /\ SubSeq(q, i, j) \in words
        /\ boundary(i)
        /\ boundary(j + 1)

\* q.split(/\s+/).length: one more piece than q has runs of white space.
splitLength(q) ==
  1 + Cardinality({i \in 1..Len(q) :
                     q[i] \in WhiteSpace /\ (i = 1 \/ q[i - 1] \notin WhiteSpace)})

streetWords ==
  { <<"s", "t">>, <<"s", "t", "r", "e", "e", "t">>, <<"r", "d">>,
    <<"r", "o", "a", "d">>, <<"a", "v", "e">>,
    <<"a", "v", "e", "n", "u", "e">>, <<"b", "l", "v", "d">>,
    <<"b", "o", "u", "l", "e", "v", "a", "r", "d">>, <<"d", "r">>,
    <<"d", "r", "i", "v", "e">>, <<"l", "n">>, <<"l", "a", "n", "e">>,
    <<"c", "t">>, <<"c", "o", "u", "r", "t">>, <<"w", "a", "y">>,
    <<"p", "l">>, <<"p", "l", "a", "c", "e">>, <<"s", "u", "i", "t", "e">> }

landmarkKeywords ==
  { <<"t", "o", "w", "e", "r">>, <<"c", "e", "n", "t", "e", "r">>,
    <<"c", "e", "n", "t", "r", "e">>,
    <<"s", "t", "a", "d", "i", "u", "m">>, <<"a", "r", "e", "n", "a">>,
    <<"g", "a", "r", "d", "e", "n">>, <<"p", "a", "r", "k">>,
    <<"b", "u", "i", "l", "d", "i", "n", "g">>,
    <<"b", "r", "i", "d", "g", "e">>, <<"m", "u", "s", "e", "u", "m">>,
    <<"h", "o", "t", "e", "l">>, <<"a", "i", "r", "p", "o", "r", "t">>,
    <<"s", "t", "a", "t", "i", "o", "n">>, <<"h", "a", "l", "l">>,
    <<"s", "q", "u", "a", "r", "e">>, <<"p", "a", "l", "a", "c", "e">>,
    <<"t", "e", "m", "p", "l", "e">>, <<"c", "h", "u", "r", "c", "h">>,
    <<"c", "a", "t", "h", "e", "d", "r", "a", "l">>,
    <<"m", "a", "l", "l">>, <<"t", "h", "e", "a", "t", "r", "e">>,
    <<"t", "h", "e", "a", "t", "e", "r">>,
    <<"c", "a", "s", "i", "n", "o">>, <<"p", "i", "e", "r">>,
    <<"w", "h", "a", "r", "f">>, <<"f", "o", "r", "t">>,
    <<"c", "a", "s", "t", "l", "e">> }

\* inferSearchIntent without the landmark keywords.
inferSearchIntentWithoutLandmarks(textQuery) ==
  LET q == lowerCase(trim(textQuery))
      hasNumber == \E i \in 1..Len(q) : q[i] \in Digit
      hasStreetWord == wordTest(streetWords, q)
      hasComma == \E i \in 1..Len(q) : q[i] = ","
      hasManyWords == splitLength(q) >= 3
  IN IF q = <<>> THEN "broad"
     ELSE IF hasNumber \/ hasStreetWord \/ hasComma \/ hasManyWords
          THEN "specific" ELSE "broad"

inferSearchIntent(textQuery) ==
  LET q == lowerCase(trim(textQuery))
      hasNumber == \E i \in 1..Len(q) : q[i] \in Digit
      hasStreetWord == wordTest(streetWords, q)
      hasComma == \E i \in 1..Len(q) : q[i] = ","
      hasManyWords == splitLength(q) >= 3
      hasLandmarkKeyword == wordTest(landmarkKeywords, q)
  IN IF q = <<>> THEN "broad"
     ELSE IF hasNumber \/ hasStreetWord \/ hasComma \/ hasManyWords \/ hasLandmarkKeyword
          THEN "specific" ELSE "broad"

\* The intent of each query of the model.
queryIntent == [q \in Queries |-> inferSearchIntent(characters(q))]

\* The six quick locations the model keeps of the 32 of the table, in the
\* order of the table (lines 257-517).
quickLocations == <<"New York City", "London", "Tokyo", "Seoul", "Beijing", "Shanghai">>

\* The camera column of the table; zooms are in tenths.
quickCamera(name) ==
  CASE name = "New York City" -> [zoom |-> 104, pitch |-> 0, bearing |-> 0]
    [] name = "Tokyo" -> [zoom |-> 99, pitch |-> 0, bearing |-> 0]
    [] OTHER -> [zoom |-> 102, pitch |-> 0, bearing |-> 0]

\* exactQuickLocation with an empty table.
exactQuickLocationNone(q) == ""

\* quickLocations.find(name or alias equals the normalized query)
exactQuickLocation(q) ==
  CASE q = "london" -> "London"
    [] q = "tokyo" -> "Tokyo"
    [] OTHER -> ""

\* quickLocations.filter(name, subtitle and aliases contain the query)
filteredLocations(q) ==
  CASE q = "" -> quickLocations
    [] q \in {"lon", "london"} -> <<"London">>
    [] q = "tokyo" -> <<"Tokyo">>
    [] OTHER -> <<>>

\* landmarkOverrides.filter(an alias equals or starts with the query)
matchingLandmarks(q) == IF q = "msg" THEN <<"Madison Square Garden">> ELSE <<>>

(***************************************************************************)
(* Features.  A feature is its display text, its place-type tags and       *)
(* whether it carries a center and a 4-element bounding box.               *)
(***************************************************************************)
Feature(text, types, bbox) ==
  [text |-> text, place_type |-> types, center |-> TRUE, bbox |-> bbox]

NoFeature == [text |-> "", place_type |-> {}, center |-> FALSE, bbox |-> FALSE]

landmarkFeature(name) == Feature(name, {"poi"}, FALSE)

\* What each provider answers for a query when it finds something.
geocodeFeature(q) ==
  IF queryIntent[q] = "specific" THEN Feature(q, {"address"}, FALSE)
                                       ELSE Feature(q, {"place"}, TRUE)
retrievedFeature(q) == Feature(q, {"address"}, FALSE)
googleFeature(q) == Feature(q, {"poi"}, TRUE)

\* getCameraForFeature with its rules tried from the largest area to the
\* smallest.
getCameraForFeatureLargestFirst(feature) ==
  LET placeTypes == feature.place_type
  IN IF "country" \in placeTypes
       THEN [zoom |-> 48, pitch |-> 0, bearing |-> 0]
     ELSE IF "region" \in placeTypes
       THEN [zoom |-> 67, pitch |-> 0, bearing |-> 0]
     ELSE IF "place" \in placeTypes \/ "locality" \in placeTypes
       THEN [zoom |-> 102, pitch |-> 0, bearing |-> 0]
     ELSE IF "district" \in placeTypes \/ "neighborhood" \in placeTypes \/ "postcode" \in placeTypes
       THEN [zoom |-> 148, pitch |-> 58, bearing |-> 20]
     ELSE IF "address" \in placeTypes \/ "poi" \in placeTypes
       THEN [zoom |-> 152, pitch |-> 60, bearing |-> 20]
     ELSE [zoom |-> 120, pitch |-> 0, bearing |-> 0]

\* Lines 1135-1159.  Zooms are in tenths.
getCameraForFeature(feature) ==
  LET placeTypes == feature.place_type
  IN IF "address" \in placeTypes \/ "poi" \in placeTypes
       THEN [zoom |-> 152, pitch |-> 60, bearing |-> 20]
     ELSE IF "district" \in placeTypes \/ "neighborhood" \in placeTypes \/ "postcode" \in placeTypes
       THEN [zoom |-> 148, pitch |-> 58, bearing |-> 20]
     ELSE IF "place" \in placeTypes \/ "locality" \in placeTypes
       THEN [zoom |-> 102, pitch |-> 0, bearing |-> 0]
     ELSE IF "region" \in placeTypes
       THEN [zoom |-> 67, pitch |-> 0, bearing |-> 0]
     ELSE IF "country" \in placeTypes
       THEN [zoom |-> 48, pitch |-> 0, bearing |-> 0]
     ELSE [zoom |-> 120, pitch |-> 0, bearing |-> 0]

Min(a, b) == IF a < b THEN a ELSE b
Max(a, b) == IF a > b THEN a ELSE b

(***************************************************************************)
(* Suggestions.  A suggestion is the query it answers and the provider it  *)
(* came from; geocode and google suggestions embed a feature, searchbox    *)
(* suggestions carry a mapboxId to retrieve.                               *)
(***************************************************************************)

suggestionFeature(sg) ==
  CASE sg.src = "geocode" -> geocodeFeature(sg.name)
    [] sg.src = "google" -> googleFeature(sg.name)
    [] OTHER -> NoFeature

\* String.prototype.toLowerCase on the names and subtitles of the model; the
\* queries, and the answers spelled like them, are in lower case already.
toLowerCase(str) ==
  CASE str = "New York City" -> "new york city"
    [] str = "New York City, New York, United States" -> "new york city, new york, united states"
    [] str = "London" -> "london"
    [] str = "London, England, United Kingdom" -> "london, england, united kingdom"
    [] str = "Tokyo" -> "tokyo"
    [] str = "Tokyo, Tokyo Prefecture, Japan" -> "tokyo, tokyo prefecture, japan"
    [] str = "Madison Square Garden" -> "madison square garden"
    [] str = "New York, New York, United States" -> "new york, new york, united states"
    [] str = "Dubai" -> "dubai"
    [] str = "Dubai, United Arab Emirates" -> "dubai, united arab emirates"
    [] str = "Dubai, India" -> "dubai, india"
    [] str = "Dubai, Oman" -> "dubai, oman"
    [] str = "Dubailand" -> "dubailand"
    [] str = "Dubailand, Dubai, United Arab Emirates" -> "dubailand, dubai, united arab emirates"
    [] str = "Dubai Mall" -> "dubai mall"
    [] str = "Dubai Mall, Dubai, United Arab Emirates" -> "dubai mall, dubai, united arab emirates"
    [] str = "350 5th Ave" -> "350 5th ave"
    [] str = "350 5th Ave, New York, United States" -> "350 5th ave, new york, united states"
    [] str = "5th Ave" -> "5th ave"
    [] str = "5th Ave, New York, United States" -> "5th ave, new york, united states"
    [] str = "Empire State Building" -> "empire state building"
    [] str = "350 5th Ave, New York, NY, USA" -> "350 5th ave, new york, ny, usa"
    [] OTHER -> str

\* The subtitle column of quickLocations and of landmarkOverrides.
tableSubtitle(name) ==
  CASE name = "New York City" -> "New York City, New York, United States"
    [] name = "London" -> "London, England, United Kingdom"
    [] name = "Tokyo" -> "Tokyo, Tokyo Prefecture, Japan"
    [] name = "Madison Square Garden" -> "New York, New York, United States"
    [] OTHER -> ""

\* The subtitle a provider gives the suggestion it answers for a query
\* (feature.place_name at line 1648, the formatted address of the other
\* providers).  The spelling is the provider's: here it follows the letter
\* case of the query, as the name does, each provider formats the address its
\* own way, and the geocoder's place name for "london" has the letters of the
\* subtitle of the table's London.
providerSubtitle(q, src) ==
  IF src = "geocode" /\ q = "london" THEN "london, england, united kingdom"
  ELSE src \o ": " \o q

\* The featureType of a provider's suggestion: 'poi' for the commercial
\* provider (line 1436), the first place type for the geocoder (lines
\* 1650-1659), the provider's feature_type for the session suggest call.
providerType(q, src) ==
  CASE src = "google" -> "poi"
    [] src = "geocode" -> "place"
    [] OTHER -> "address"

\* The suggestion a provider answers a query with.
Suggestion(q, src) ==
  [name |-> q, src |-> src, subtitle |-> providerSubtitle(q, src),
   featureType |-> providerType(q, src)]

\* The key of the seen-set of fetchDynamicSuggestions (lines 1781, 1791 and
\* 1802).
suggestionKey(sg) ==
  toLowerCase(sg.name) \o "|" \o toLowerCase(sg.subtitle)

\* The forEach loops over a seen-set (lines 1779-1806 and 651-673): the
\* entries whose key no earlier entry has, in order.
RECURSIVE dedupe(_, _, _)
dedupe(entries, keys, seen) ==
  IF entries = <<>> THEN <<>>
  ELSE IF Head(keys) \in seen THEN dedupe(Tail(entries), Tail(keys), seen)
  ELSE <<Head(entries)>> \o dedupe(Tail(entries), Tail(keys), seen \cup {Head(keys)})

\* The maximal runs of characters of text that are no separators, in order;
\* a separator is a character inside seps (inside = TRUE) or outside of it.
runsOf(text, seps, inside) ==
  LET separates(i) == (text[i] \in seps) = inside
      starts == {i \in 1..Len(text) : ~separates(i) /\ (i = 1 \/ separates(i - 1))}
      ends == {i \in 1..Len(text) : ~separates(i) /\ (i = Len(text) \/ separates(i + 1))}
      nth(positions, k) ==
        CHOOSE i \in positions : Cardinality({j \in positions : j < i}) = k - 1
  IN [k \in 1..Cardinality(starts) |-> SubSeq(text, nth(starts, k), nth(ends, k))]

RECURSIVE join(_)
join(words) ==
  IF words = <<>> THEN <<>>
  ELSE IF Len(words) = 1 THEN words[1]
  ELSE words[1] \o <<" ">> \o join(Tail(words))

\* Line 632: lower-cased, every character that is no lower-case letter, digit
\* or white space replaced by a blank, runs of white space replaced by one
\* blank, trimmed.
normalizeText(value) ==
  LET lower == lowerCase(value)
      kept == {Letters.lower[i] : i \in 1..26} \cup Digit \cup WhiteSpace
      blanked == [i \in 1..Len(lower) |-> IF lower[i] \in kept THEN lower[i] ELSE " "]
  IN join(runsOf(blanked, WhiteSpace, TRUE))

\* String.prototype.startsWith and String.prototype.includes
startsWith(text, prefix) ==
  Len(prefix) <= Len(text) /\ SubSeq(text, 1, Len(prefix)) = prefix

includes(text, part) ==
  \E i \in 0..(Len(text) - Len(part)) : SubSeq(text, i + 1, i + Len(part)) = part

\* subtitle.split(',').pop().trim().toLowerCase() (line 1574)
lastSegment(subtitle) ==
  LET commas == {i \in 1..Len(subtitle) : subtitle[i] = ","}
      last == IF commas = {} THEN 0 ELSE CHOOSE i \in commas : \A j \in commas : j <= i
  IN lowerCase(trim(SubSeq(subtitle, last + 1, Len(subtitle))))

\* Lines 1492-1537; a feature type outside the table weighs 5.
suggestionTypeWeight(featureType, intent, textQuery) ==
  LET q == normalizeText(textQuery)
      looksLikeStreetQuery == wordTest(streetWords \ {<<"s", "u", "i", "t", "e">>}, q)
      streetWeights ==
        [street |-> 95, address |-> 90, neighborhood |-> 55, district |-> 48, place |-> 35,
         locality |-> 35, poi |-> 30, region |-> 18, country |-> 8]
      broadWeights ==
        [place |-> 90, locality |-> 90, district |-> 65, neighborhood |-> 50, region |-> 45,
         country |-> 35, poi |-> 20, address |-> 10, street |-> 8]
      specificWeights ==
        [poi |-> 90, address |-> 85, street |-> 70, neighborhood |-> 55, district |-> 50,
         place |-> 40, locality |-> 40, region |-> 25, country |-> 12]
      table == IF looksLikeStreetQuery /\ intent = "specific" THEN streetWeights
               ELSE IF intent = "specific" THEN specificWeights ELSE broadWeights
  IN IF featureType \in DOMAIN table THEN table[featureType] ELSE 5

businessNoiseWords ==
  { <<"c", "o", "u", "r", "t">>, <<"o", "f", "f", "i", "c", "e">>,
    <<"c", "o", "r", "p", "o", "r", "a", "t", "i", "o", "n">>,
    <<"d", "a", "t", "a", "b", "a", "s", "e">>, <<"j", "e", "w", "e", "l", "l", "e", "r", "s">>,
    <<"h", "o", "t", "e", "l">>, <<"c", "h", "u", "r", "c", "h">> }

\* countryBonus without the comparison of the country: the bonus goes to
\* every candidate of a well-known city name.
cityBonus(q, countryName) ==
  IF q \in { <<"d", "u", "b", "a", "i">>,
             <<"c", "a", "l", "g", "a", "r", "y">>,
             <<"l", "o", "n", "d", "o", "n">>,
             <<"p", "a", "r", "i", "s">>, <<"t", "o", "k", "y", "o">> }
  THEN 90 ELSE 0

\* Lines 1575-1579: the country a well-known city name is expected in.
countryBonus(q, countryName) ==
  LET expected ==
        { << <<"d", "u", "b", "a", "i">>,
             <<"u", "n", "i", "t", "e", "d", " ", "a", "r", "a", "b", " ", "e", "m", "i", "r", "a", "t", "e", "s">> >>,
          << <<"c", "a", "l", "g", "a", "r", "y">>,
             <<"c", "a", "n", "a", "d", "a">> >>,
          << <<"l", "o", "n", "d", "o", "n">>,
             <<"u", "n", "i", "t", "e", "d", " ", "k", "i", "n", "g", "d", "o", "m">> >>,
          << <<"p", "a", "r", "i", "s">>,
             <<"f", "r", "a", "n", "c", "e">> >>,
          << <<"t", "o", "k", "y", "o">>,
             <<"j", "a", "p", "a", "n">> >> }
  IN IF <<q, countryName>> \in expected THEN 90 ELSE 0

\* Lines 1547-1572: the score of a suggestion before the country bonus.
matchScore(suggestion, textQuery) ==
  LET q == lowerCase(trim(textQuery))
      intent == inferSearchIntent(textQuery)
      normalizedQuery == normalizeText(textQuery)
      queryTokens == runsOf(normalizedQuery, {" "}, TRUE)
      name == lowerCase(characters(suggestion.name))
      normalizedName == normalizeText(characters(suggestion.name))
      normalizedSubtitle == normalizeText(characters(suggestion.subtitle))
      combined == normalizedName \o <<" ">> \o normalizedSubtitle
      matchedTokenCount ==
        Cardinality({i \in 1..Len(queryTokens) : includes(combined, queryTokens[i])})
      hasNoise == \E word \in businessNoiseWords : includes(normalizedName, word)
      add(cond, n) == IF cond THEN n ELSE 0
  IN suggestionTypeWeight(suggestion.featureType, intent, textQuery)
     + add(normalizedName = normalizedQuery, 180)
     + add(startsWith(normalizedName, normalizedQuery), 95)
     + add(name = q, 70)
     + add(startsWith(name, q), 45)
     + add(includes(name, q), 18)
     + add(matchedTokenCount = Len(queryTokens), 50)
     - add(matchedTokenCount < Len(queryTokens), 60)
     - add(/\ Len(queryTokens) >= 2 /\ suggestion.featureType = "poi"
           /\ ~includes(normalizedName, normalizedQuery), 25)
     - add(/\ Len(queryTokens) <= 2 /\ hasNoise
           /\ ~startsWith(normalizedName, normalizedQuery), 50)

\* Lines 1546-1582: the score rankSuggestions sorts by.
score(suggestion, textQuery) ==
  matchScore(suggestion, textQuery)
  + countryBonus(lowerCase(trim(textQuery)), lastSegment(characters(suggestion.subtitle)))

\* Array.prototype.sort with (a, b) => b.score - a.score: descending, and
\* stable, so each entry goes behind the entries that score as much or more.
RECURSIVE sortByScore(_, _)
sortByScore(suggestions, textQuery) ==
  IF Len(suggestions) <= 1 THEN suggestions
  ELSE LET front == sortByScore(SubSeq(suggestions, 1, Len(suggestions) - 1), textQuery)
           entry == suggestions[Len(suggestions)]
           ahead == {i \in 1..Len(front) :
                       score(front[i], textQuery) >= score(entry, textQuery)}
       IN SubSeq(front, 1, Cardinality(ahead)) \o <<entry>>
            \o SubSeq(front, Cardinality(ahead) + 1, Len(front))

\* Lines 1539-1586
rankSuggestions(suggestions, textQuery) == sortByScore(suggestions, textQuery)

(***************************************************************************)
(* State.                                                                  *)
(***************************************************************************)
VARIABLES
  query, isSearchOpen, renderSearch, isSearching, isSuggesting, searchError,
  dynamicSuggestions, manualSelection, viewMode,
  onboardingPhase, hasCompletedOnboardingRef,
  searchboxSessionTokenRef, googleDisabledRef,
  suggestionAbortRef, searchAbortRef,
  suggestionsCacheRef, searchCacheRef,
  cameraTransitionRef, spinEnabledRef,
  projection, padding, camera, highlightedBuildingRef,
  moving, moveendListeners, idleListeners,
  lastEventsLookupRef, isEventsModalOpen, eventsModalLocation, eventLookups,
  nextSuggestCtl, nextSearchCtl, suggestRuns, resolveRuns,
  now, isMobile, googleApiKey, reloaded, resizeTimer, mapRef, lastOp, googleRefused,
  textQuery, searchIntent, answers, cameraForFeature

vars == <<
  query, isSearchOpen, renderSearch, isSearching, isSuggesting, searchError,
  dynamicSuggestions, manualSelection, viewMode,
  onboardingPhase, hasCompletedOnboardingRef,
  searchboxSessionTokenRef, googleDisabledRef,
  suggestionAbortRef, searchAbortRef,
  suggestionsCacheRef, searchCacheRef,
  cameraTransitionRef, spinEnabledRef,
  projection, padding, camera, highlightedBuildingRef,
  moving, moveendListeners, idleListeners,
  lastEventsLookupRef, isEventsModalOpen, eventsModalLocation, eventLookups,
  nextSuggestCtl, nextSearchCtl, suggestRuns, resolveRuns,
  now, isMobile, googleApiKey, reloaded, resizeTimer, mapRef, lastOp, googleRefused,
  textQuery, searchIntent, answers, cameraForFeature >>

\* The state as one record, so that a handler is a function from state to
\* state and handlers compose the way the calls in the source nest.
St == [
  query |-> query, isSearchOpen |-> isSearchOpen, renderSearch |-> renderSearch,
  isSearching |-> isSearching, isSuggesting |-> isSuggesting,
  searchError |-> searchError, dynamicSuggestions |-> dynamicSuggestions,
  manualSelection |-> manualSelection, viewMode |-> viewMode,
  onboardingPhase |-> onboardingPhase,
  hasCompletedOnboardingRef |-> hasCompletedOnboardingRef,
  searchboxSessionTokenRef |-> searchboxSessionTokenRef,
  googleDisabledRef |-> googleDisabledRef,
  suggestionAbortRef |-> suggestionAbortRef, searchAbortRef |-> searchAbortRef,
  suggestionsCacheRef |-> suggestionsCacheRef, searchCacheRef |-> searchCacheRef,
  cameraTransitionRef |-> cameraTransitionRef, spinEnabledRef |-> spinEnabledRef,
  projection |-> projection, padding |-> padding, camera |-> camera,
  highlightedBuildingRef |-> highlightedBuildingRef,
  moving |-> moving,
  moveendListeners |-> moveendListeners, idleListeners |-> idleListeners,
  lastEventsLookupRef |-> lastEventsLookupRef,
  isEventsModalOpen |-> isEventsModalOpen,
  eventsModalLocation |-> eventsModalLocation, eventLookups |-> eventLookups,
  nextSuggestCtl |-> nextSuggestCtl,
  nextSearchCtl |-> nextSearchCtl, suggestRuns |-> suggestRuns,
  resolveRuns |-> resolveRuns,
  now |-> now, isMobile |-> isMobile, googleApiKey |-> googleApiKey,
  reloaded |-> reloaded, resizeTimer |-> resizeTimer, mapRef |-> mapRef,
  lastOp |-> lastOp, googleRefused |-> googleRefused,
  textQuery |-> textQuery, searchIntent |-> searchIntent, answers |-> answers,
  cameraForFeature |-> cameraForFeature ]

Commit(s) ==
  /\ query' = s.query
  /\ isSearchOpen' = s.isSearchOpen
  /\ renderSearch' = s.renderSearch
  /\ isSearching' = s.isSearching
  /\ isSuggesting' = s.isSuggesting
  /\ searchError' = s.searchError
  /\ dynamicSuggestions' = s.dynamicSuggestions
  /\ manualSelection' = s.manualSelection
  /\ viewMode' = s.viewMode
  /\ onboardingPhase' = s.onboardingPhase
  /\ hasCompletedOnboardingRef' = s.hasCompletedOnboardingRef
  /\ searchboxSessionTokenRef' = s.searchboxSessionTokenRef
  /\ googleDisabledRef' = s.googleDisabledRef
  /\ suggestionAbortRef' = s.suggestionAbortRef
  /\ searchAbortRef' = s.searchAbortRef
  /\ suggestionsCacheRef' = s.suggestionsCacheRef
  /\ searchCacheRef' = s.searchCacheRef
  /\ cameraTransitionRef' = s.cameraTransitionRef
  /\ spinEnabledRef' = s.spinEnabledRef
  /\ projection' = s.projection
  /\ padding' = s.padding
  /\ camera' = s.camera
  /\ highlightedBuildingRef' = s.highlightedBuildingRef
  /\ moving' = s.moving
  /\ moveendListeners' = s.moveendListeners
  /\ idleListeners' = s.idleListeners
  /\ lastEventsLookupRef' = s.lastEventsLookupRef
  /\ isEventsModalOpen' = s.isEventsModalOpen
  /\ eventsModalLocation' = s.eventsModalLocation
  /\ eventLookups' = s.eventLookups
  /\ nextSuggestCtl' = s.nextSuggestCtl
  /\ nextSearchCtl' = s.nextSearchCtl
  /\ suggestRuns' = s.suggestRuns
  /\ resolveRuns' = s.resolveRuns
  /\ now' = s.now
  /\ isMobile' = s.isMobile
  /\ googleApiKey' = s.googleApiKey
  /\ reloaded' = s.reloaded
  /\ resizeTimer' = s.resizeTimer
  /\ mapRef' = s.mapRef
  /\ lastOp' = s.lastOp
  /\ googleRefused' = s.googleRefused
  /\ textQuery' = s.textQuery
  /\ searchIntent' = s.searchIntent
  /\ answers' = s.answers
  /\ cameraForFeature' = s.cameraForFeature

\* Keys of searchCacheRef: the normalized query for a resolved feature,
\* "retrieve:" + mapboxId for a retrieved one (lines 1672 and 1871).
mapboxId(q) == "mbx." \o q
retrieveKey(id) == "retrieve:" \o id
SearchKeys == Queries \cup {retrieveKey(mapboxId(q)) : q \in Queries}

\* History: the continuation that ran last (the empty name after any other
\* task), the controller of the request it belongs to, whether that request
\* or callback was still current, and the outcome it was given.
Op(op, ctl, standing, outcome) ==
  [op |-> op, ctl |-> ctl, standing |-> standing, outcome |-> outcome]
NoOp == Op("", 0, "", "")

NoEntry == [present |-> FALSE, value |-> <<>>, timestamp |-> 0]
Entry(v, t) == [present |-> TRUE, value |-> v, timestamp |-> t]

\* The camera command the render surface last received.
Camera(op, target, zoom, pitch, bearing) ==
  [op |-> op, target |-> target, zoom |-> zoom, pitch |-> pitch, bearing |-> bearing]

InitialCamera == Camera("initial", "globe", 19, 0, 0)

\* The state the component is constructed with (lines 62-110); the render
\* surface will start on the globe.
Constructed ==
  /\ query = ""
  /\ isSearchOpen = FALSE
  /\ renderSearch = FALSE
  /\ isSearching = FALSE
  /\ isSuggesting = FALSE
  /\ searchError = ""
  /\ dynamicSuggestions = <<>>
  /\ manualSelection = FALSE
  /\ viewMode = "instructions"
  /\ onboardingPhase = "visible"
  /\ hasCompletedOnboardingRef = FALSE
  /\ searchboxSessionTokenRef = ""
  /\ googleDisabledRef = FALSE
  /\ suggestionAbortRef = NoCtl
  /\ searchAbortRef = NoCtl
  /\ suggestionsCacheRef = [q \in Queries |-> NoEntry]
  /\ searchCacheRef = [k \in SearchKeys |-> NoEntry]
  /\ cameraTransitionRef = 0
  /\ spinEnabledRef = TRUE
  /\ projection = "globe"
  /\ padding = "initial"
  /\ camera = InitialCamera
  /\ highlightedBuildingRef = ""
  /\ moving = FALSE
  /\ moveendListeners = <<>>
  /\ idleListeners = <<>>
  /\ lastEventsLookupRef = ""
  /\ isEventsModalOpen = FALSE
  /\ eventsModalLocation = ""
  /\ eventLookups = {}
  /\ nextSuggestCtl = 1
  /\ nextSearchCtl = 1
  /\ suggestRuns = {}
  /\ resolveRuns = {}
  /\ now = 0
  /\ isMobile \in BOOLEAN
  /\ googleApiKey \in BOOLEAN
  /\ reloaded = FALSE
  /\ resizeTimer = ""
  /\ lastOp = NoOp
  /\ googleRefused = FALSE

\* The mount effect has created the render surface (lines 2324-2333).
\* No text has been classified yet: textQuery and searchIntent record the
\* argument and the result of a call of inferSearchIntent.
Unclassified == textQuery = <<>> /\ searchIntent = ""

\* answers records what the two provider calls of one fetchDynamicSuggestions
\* returned; no call has returned yet.
Unanswered == answers = [mapbox |-> <<>>, google |-> <<>>]

\* cameraForFeature records the argument and the result of a call of
\* getCameraForFeature; no call has been recorded yet.
NotLookedUp == cameraForFeature = [feature |-> NoFeature, camera |-> [zoom |-> 0, pitch |-> 0, bearing |-> 0]]

Init == Constructed /\ mapRef = TRUE /\ Unclassified /\ Unanswered /\ NotLookedUp

(***************************************************************************)
(* Camera sequencer.  The render surface is the camera command it last     *)
(* received, whether that animation is still running, its projection and   *)
(* padding, and the listeners registered with once().  An animation ends   *)
(* with a moveend signal, also when stop() or a new camera command         *)
(* interrupts it; the signal runs every registered moveend listener once,  *)
(* in registration order.                                                  *)
(***************************************************************************)
setViewModeState(s, mode) == [s EXCEPT !.viewMode = mode]

clearBuildingHighlight(s) == [s EXCEPT !.highlightedBuildingRef = ""]

Listener(kind, gen, target, zoom, pitch, bearing, prefer3D, highlightBuilding) ==
  [kind |-> kind, gen |-> gen, target |-> target, zoom |-> zoom, pitch |-> pitch,
   bearing |-> bearing, prefer3D |-> prefer3D, highlightBuilding |-> highlightBuilding]

\* map.flyTo, map.fitBounds and map.easeTo once the previous animation has
\* been stopped.
animate(s, cam) == [s EXCEPT !.camera = cam, !.moving = TRUE]

\* runFinalFly with the generation check of line 720 left out.
runFinalFlyUnguarded(s, cb, hasLayer) ==
  [s EXCEPT !.camera = [op |-> "flyTo", target |-> cb.target, zoom |-> cb.zoom,
                        pitch |-> cb.pitch, bearing |-> cb.bearing],
            !.moving = TRUE,
            !.projection = "mercator"]

\* runFinalFly that starts no animation and waits for the next completion
\* signal instead.
runFinalFlyWaitingOn(s, cb, hasLayer) ==
  IF s.cameraTransitionRef # cb.gen THEN s
  ELSE [s EXCEPT !.moveendListeners = Append(@, cb)]

\* runFinalFly with the branch of a touch device (lines 722-733) taken on
\* every device.
runFinalFlyOfTouchDevice(s, cb, hasLayer) ==
  IF s.cameraTransitionRef # cb.gen THEN s
  ELSE animate(s, Camera("flyTo", cb.target, cb.zoom, 0, 0))

\* Lines 719-774.  hasLayer is what add3DBuildingsLayer() answers.
runFinalFly(s, cb, hasLayer) ==
  IF s.cameraTransitionRef # cb.gen THEN s
  ELSE IF s.isMobile
    THEN animate(s, Camera("flyTo", cb.target, cb.zoom, 0, 0))
  ELSE [animate(s, Camera("flyTo", cb.target, cb.zoom, cb.pitch, cb.bearing)) EXCEPT
         !.projection = "mercator",
         !.idleListeners =
            IF cb.prefer3D /\ hasLayer
              THEN Append(@, Listener("idle", cb.gen, cb.target, cb.zoom, cb.pitch,
                                      cb.bearing, cb.prefer3D, cb.highlightBuilding))
              ELSE @]

\* Lines 1192-1231.
runFinalBounds(s, cb) ==
  IF s.cameraTransitionRef # cb.gen THEN s
  ELSE IF s.isMobile
    THEN animate(s, Camera("fitBounds", cb.target, cb.zoom, 0, 0))
  ELSE [animate(s, Camera("fitBounds", cb.target, cb.zoom, 0, 0)) EXCEPT
          !.projection = "mercator"]

\* The moveend callback of returnTo...View (lines 2030-2033, 2087-2090).
onReturnMoveEnd(s, cb) ==
  IF s.cameraTransitionRef # cb.gen THEN s
  ELSE [s EXCEPT !.spinEnabledRef = TRUE]

\* The moveend callback of the onboarding exit (lines 2254-2257).
onMoveEnd(s) ==
  setViewModeState([s EXCEPT !.padding = "centered"], "browse")

\* One moveend listener runs.
runListener(s, l, hasLayer) ==
  CASE l.kind = "runFinalFly" -> runFinalFly(s, l, hasLayer)
    [] l.kind = "runFinalBounds" -> runFinalBounds(s, l)
    [] l.kind = "spin" -> onReturnMoveEnd(s, l)
    [] l.kind = "onMoveEnd" -> onMoveEnd(s)

RECURSIVE runListeners(_, _, _)
runListeners(s, ls, hasLayer) ==
  IF ls = <<>> THEN s
  ELSE runListeners(runListener(s, Head(ls), hasLayer), Tail(ls), hasLayer)

\* The moveend signal: the animation is over and the once() listeners run.
fireMoveEnd(s, hasLayer) ==
  runListeners([s EXCEPT !.moving = FALSE, !.moveendListeners = <<>>],
               s.moveendListeners, hasLayer)

\* map.stop() (lines 707, 1169, 1994, 2049), also the first thing every
\* camera command does.
stopMap(s, hasLayer) == IF s.moving THEN fireMoveEnd(s, hasLayer) ELSE s

\* Lines 752-772.  hasRendered3D is what queryRenderedFeatures answers.
onIdle(s, cb, hasRendered3D) ==
  IF s.cameraTransitionRef # cb.gen THEN s
  ELSE IF ~hasRendered3D /\ s.camera.pitch > 0
    THEN animate(s, Camera("easeTo", s.camera.target, s.camera.zoom, 0, 0))
  ELSE IF hasRendered3D /\ cb.highlightBuilding
    THEN [s EXCEPT !.highlightedBuildingRef = cb.target]
  ELSE s

RECURSIVE runIdleListeners(_, _, _)
runIdleListeners(s, ls, hasRendered3D) ==
  IF ls = <<>> THEN s
  ELSE runIdleListeners(onIdle(s, Head(ls), hasRendered3D), Tail(ls), hasRendered3D)

\* flyToLocation on a render surface without the approach phase of lines
\* 776-795: the final phase runs at once in every projection.
flyToLocationWithoutApproach(s, target, cam, prefer3D, highlightBuilding, hasLayer) ==
  LET transitionId == s.cameraTransitionRef + 1
      cb == Listener("runFinalFly", transitionId, target, cam.zoom,
                     IF prefer3D THEN cam.pitch ELSE 0,
                     IF prefer3D THEN cam.bearing ELSE 0, prefer3D, highlightBuilding)
      s1 == [setViewModeState(s, "focused") EXCEPT !.cameraTransitionRef = transitionId]
      s2 == [stopMap(s1, hasLayer) EXCEPT
               !.padding = "zero",
               !.spinEnabledRef = FALSE,
               !.highlightedBuildingRef = ""]
  IN [runFinalFly(s2, cb, hasLayer) EXCEPT !.searchError = "", !.isSearchOpen = FALSE]

\* Lines 702-802: flyToLocation on a render surface.
startFlyToLocation(s, target, cam, prefer3D, highlightBuilding, hasLayer) ==
  LET transitionId == s.cameraTransitionRef + 1
      targetPitch == IF prefer3D THEN cam.pitch ELSE 0
      targetBearing == IF prefer3D THEN cam.bearing ELSE 0
      cb == Listener("runFinalFly", transitionId, target, cam.zoom, targetPitch,
                     targetBearing, prefer3D, highlightBuilding)
      s1 == [setViewModeState(s, "focused") EXCEPT !.cameraTransitionRef = transitionId]
      s2 == [stopMap(s1, hasLayer) EXCEPT
               !.padding = "zero",
               !.spinEnabledRef = FALSE,
               !.highlightedBuildingRef = ""]
      approachZoom == Max(28, Min(IF prefer3D THEN 58 ELSE 54,
                                  cam.zoom - (IF prefer3D THEN 23 ELSE 19)))
      s3 == IF s2.projection = "globe"
              THEN [animate(s2, Camera("flyTo", target, approachZoom, 0, 0)) EXCEPT
                      !.moveendListeners = Append(@, cb)]
              ELSE runFinalFly(s2, cb, hasLayer)
  IN [s3 EXCEPT !.searchError = "", !.isSearchOpen = FALSE]

\* flyToLocation without the test of the render surface (line 701).
flyToLocationAnyway(s, target, cam, prefer3D, highlightBuilding, hasLayer) ==
  startFlyToLocation(s, target, cam, prefer3D, highlightBuilding, hasLayer)

\* Lines 699-802.
flyToLocation(s, target, cam, prefer3D, highlightBuilding, hasLayer) ==
  IF ~s.mapRef THEN s
  ELSE startFlyToLocation(s, target, cam, prefer3D, highlightBuilding, hasLayer)

\* flyToFeature without the fit-bounds flow of lines 1185-1251: every
\* feature takes the center/zoom flow.
flyToFeatureByCenter(s, feature, hasLayer) ==
  IF ~s.mapRef \/ ~feature.center THEN s
  ELSE
    LET placeTypes == feature.place_type
        s1 == [setViewModeState(s, "focused") EXCEPT !.cameraTransitionRef = @ + 1]
        s2 == [stopMap(s1, hasLayer) EXCEPT !.spinEnabledRef = FALSE]
    IN flyToLocation(s2, feature.text, getCameraForFeature(feature),
                     placeTypes \cap {"address", "poi", "district", "neighborhood", "postcode"} # {},
                     "poi" \in placeTypes \/ "address" \in placeTypes, hasLayer)

\* Lines 1161-1255.
flyToFeature(s, feature, hasLayer) ==
  IF ~s.mapRef \/ ~feature.center THEN s
  ELSE
    LET transitionId == s.cameraTransitionRef + 1
        placeTypes == feature.place_type
        cam == getCameraForFeature(feature)
        isSmallArea3D == placeTypes \cap {"address", "poi", "district", "neighborhood", "postcode"} # {}
        shouldHighlight == "poi" \in placeTypes \/ "address" \in placeTypes
        s1 == [setViewModeState(s, "focused") EXCEPT !.cameraTransitionRef = transitionId]
        s2 == [stopMap(s1, hasLayer) EXCEPT !.spinEnabledRef = FALSE]
        cb == Listener("runFinalBounds", transitionId, feature.text, cam.zoom, 0, 0, FALSE, FALSE)
        s3 == clearBuildingHighlight(s2)
        s4 == IF s3.projection = "globe"
                THEN [animate(s3, Camera("flyTo", feature.text, Min(cam.zoom, 52), 0, 0)) EXCEPT
                        !.moveendListeners = Append(@, cb)]
                ELSE runFinalBounds(s3, cb)
    IN IF ~isSmallArea3D /\ feature.bbox
         THEN [s4 EXCEPT !.searchError = "", !.isSearchOpen = FALSE]
         ELSE flyToLocation(s2, feature.text, cam, isSmallArea3D, shouldHighlight, hasLayer)

\* returnToGlobe with the increment of the generation left out.
returnToGlobeSameGeneration(s, zoom, pad, hasLayer) ==
  [s EXCEPT !.searchError = "", !.query = "", !.dynamicSuggestions = <<>>,
            !.manualSelection = FALSE, !.isSearchOpen = FALSE,
            !.spinEnabledRef = FALSE, !.projection = "globe", !.padding = pad,
            !.camera = [op |-> "flyTo", target |-> "globe", zoom |-> zoom,
                        pitch |-> 0, bearing |-> 0],
            !.moving = TRUE]

\* The part returnToInstructionsView and returnToBrowseGlobeView share
\* (lines 1994-2033 and 2049-2090).
returnToGlobe(s, zoom, pad, hasLayer) ==
  LET s1 == clearBuildingHighlight(stopMap(s, hasLayer))
      transitionId == s1.cameraTransitionRef + 1
      s2 == [s1 EXCEPT
               !.searchError = "",
               !.query = "",
               !.dynamicSuggestions = <<>>,
               !.manualSelection = FALSE,
               !.isSearchOpen = FALSE,
               !.isEventsModalOpen = FALSE,
               !.eventsModalLocation = "",
               !.lastEventsLookupRef = "",
               !.cameraTransitionRef = transitionId,
               !.spinEnabledRef = FALSE,
               !.projection = "globe"]
  IN [animate(s2, Camera("flyTo", "globe", zoom, 0, 0)) EXCEPT
        !.padding = pad,
        !.moveendListeners =
           Append(@, Listener("spin", transitionId, "globe", zoom, 0, 0, FALSE, FALSE))]

\* Lines 1982-2038; onReturnToInstructions is App.handleReturnToInstructions
\* (line 24).  On a touch device the page is reloaded instead.
returnToInstructionsView(s, hasLayer) ==
  IF s.isMobile THEN [s EXCEPT !.reloaded = TRUE]
  ELSE IF ~s.mapRef THEN [s EXCEPT !.onboardingPhase = "visible"]
  ELSE [setViewModeState(returnToGlobe(s, 19, "initial", hasLayer), "instructions") EXCEPT
          !.onboardingPhase = "visible"]

\* Lines 2040-2093.
returnToBrowseGlobeView(s, hasLayer) ==
  IF s.isMobile THEN [s EXCEPT !.reloaded = TRUE]
  ELSE IF ~s.mapRef THEN s
  ELSE setViewModeState(returnToGlobe(s, 21, "centered", hasLayer), "browse")

(***************************************************************************)
(* Backend place lookup (fire-and-forget).                                 *)
(***************************************************************************)
\* Lines 872-886: the part of fetchAssociatedEvents before its await.
\* name is the place name of the payload.
fetchAssociatedEvents(s, name) ==
  IF name = "" \/ name = s.lastEventsLookupRef THEN s
  ELSE [s EXCEPT !.lastEventsLookupRef = name,
                 !.eventLookups = @ \cup {name}]

(***************************************************************************)
(* Live suggestions.                                                       *)
(***************************************************************************)
\* isFresh without the age test.
entryPresent(s, entry) == entry.present

\* Lines 1673-1674, 1872-1873 and 2285-2286.
isFresh(s, entry) == entry.present /\ s.now - entry.timestamp < CACHE_TTL_MS

\* A run of loadSuggestions that reached its first await: the controller it
\* made (and whether that was aborted), its query, its cancelled flag, the
\* await it is at and the provider calls it issued.
SuggestRun(ctl, q) ==
  [ctl |-> ctl, aborted |-> FALSE, q |-> q, cancelled |-> FALSE,
   phase |-> "debounce", calls |-> {}]

\* An abort that aborts nothing.
abortNothing(s) == s

\* suggestionAbortRef.current.abort()
abortSuggestion(s) ==
  [s EXCEPT !.suggestRuns =
     {[r EXCEPT !.aborted = @ \/ (r.ctl = s.suggestionAbortRef)] : r \in @}]

\* loadSuggestions with the cleanup of the previous run of the effect left
\* out: no earlier run is marked cancelled.
loadSuggestionsWithoutCleanup(s) ==
  LET cachedSuggestions == s.suggestionsCacheRef[s.query]
  IN IF ~s.isSearchOpen \/ trimLength(s.query) < 2
       THEN [s EXCEPT !.suggestRuns =
                         {[r EXCEPT !.aborted = @ \/ (r.ctl = s.suggestionAbortRef)] : r \in @},
                      !.dynamicSuggestions = <<>>,
                      !.isSuggesting = FALSE,
                      !.suggestionAbortRef = NoCtl]
     ELSE IF s.now - cachedSuggestions.timestamp < CACHE_TTL_MS /\ cachedSuggestions.present
       THEN [s EXCEPT !.dynamicSuggestions = cachedSuggestions.value,
                      !.isSuggesting = FALSE]
     ELSE [s EXCEPT
             !.suggestRuns =
                {[r EXCEPT !.aborted = @ \/ (r.ctl = s.suggestionAbortRef)] : r \in @}
                \cup {[ctl |-> s.nextSuggestCtl, aborted |-> FALSE, q |-> s.query,
                       cancelled |-> FALSE, phase |-> "debounce", calls |-> {}]},
             !.suggestionAbortRef = s.nextSuggestCtl,
             !.nextSuggestCtl = @ + 1,
             !.isSuggesting = TRUE]

\* Lines 2266-2322: the cleanup of the previous run of the effect, then
\* loadSuggestions up to its first await.
loadSuggestions(s) ==
  LET cacheKey == s.query
      cachedSuggestions == s.suggestionsCacheRef[cacheKey]
      s0 == [s EXCEPT !.suggestRuns = {[r EXCEPT !.cancelled = TRUE] : r \in @}]
  IN IF ~s0.isSearchOpen \/ trimLength(s0.query) < 2
       THEN [abortSuggestion(s0) EXCEPT
               !.dynamicSuggestions = <<>>,
               !.isSuggesting = FALSE,
               !.suggestionAbortRef = NoCtl]
     ELSE IF isFresh(s0, cachedSuggestions)
       THEN [s0 EXCEPT !.dynamicSuggestions = cachedSuggestions.value,
                       !.isSuggesting = FALSE]
     ELSE [abortSuggestion(s0) EXCEPT
             !.suggestionAbortRef = s0.nextSuggestCtl,
             !.nextSuggestCtl = @ + 1,
             !.isSuggesting = TRUE,
             !.suggestRuns = @ \cup {SuggestRun(s0.nextSuggestCtl, s0.query)}]

\* Lines 1588-1591 and 1667-1670: a session token is made when there is none.
ensureSessionToken(s) ==
  IF s.searchboxSessionTokenRef = "" THEN [s EXCEPT !.searchboxSessionTokenRef = "tok"] ELSE s

\* afterDebounce with the check of the cancelled flag (line 2302) left out.
afterDebounceUnguarded(s, r) ==
  [s EXCEPT !.suggestRuns =
     (@ \ {r}) \cup {[r EXCEPT !.phase = "fetch", !.calls = {"mapbox"}]}]

\* Lines 2301-2304 and 1762-1772: the debounce delay has elapsed;
\* fetchDynamicSuggestions issues its provider calls (none leaves when the
\* signal is already aborted).
afterDebounce(s, r) ==
  IF r.cancelled THEN [s EXCEPT !.suggestRuns = @ \ {r}]
  ELSE
    LET s1 == IF queryIntent[r.q] = "broad" THEN s ELSE ensureSessionToken(s)
        google == IF s.googleApiKey /\ ~s.googleDisabledRef THEN {"google"} ELSE {}
        calls == IF r.aborted THEN {} ELSE {"mapbox"} \cup google
    IN [s1 EXCEPT !.suggestRuns = (@ \ {r}) \cup {[r EXCEPT !.phase = "fetch", !.calls = calls]}]

\* combineSuggestions with the primary provider's results always first.
combinePrimaryFirst(intent, pieces, mapboxSuggestions, googleSuggestions) ==
  LET merged == mapboxSuggestions \o googleSuggestions
  IN dedupe(merged, [i \in 1..Len(merged) |-> suggestionKey(merged[i])], {})

\* Lines 1774-1809: the three forEach loops over one seen-set.  pieces is
\* textQuery.split(/\s+/).length.
combineSuggestions(intent, pieces, mapboxSuggestions, googleSuggestions) ==
  LET merged ==
        (IF intent = "specific" \/ pieces >= 2 THEN googleSuggestions ELSE <<>>)
          \o mapboxSuggestions
          \o (IF intent = "broad" THEN googleSuggestions ELSE <<>>)
  IN dedupe(merged, [i \in 1..Len(merged) |-> suggestionKey(merged[i])], {})

\* Lines 1762-1814: what fetchDynamicSuggestions returns for the outcomes of
\* its two calls.  primary is "ok", "http" (error response) or "fail"
\* (transport failure); google is "ok", "fail" or "denied" (a permission or
\* service-disabled error response, answered like every error response with
\* an empty list, lines 1406-1408).
fetchDynamicSuggestions(r, primary, google) ==
  LET intent == queryIntent[r.q]
      mapboxSuggestions ==
        IF primary = "ok"
          THEN <<Suggestion(r.q, IF intent = "broad" THEN "geocode" ELSE "searchbox")>>
          ELSE <<>>
      googleSuggestions ==
        IF "google" \in r.calls /\ google = "ok" THEN <<Suggestion(r.q, "google")>> ELSE <<>>
  IN IF r.aborted \/ primary = "fail" THEN <<>>
     ELSE combineSuggestions(intent, tokenCount(r.q),
                             rankSuggestions(mapboxSuggestions, characters(r.q)),
                             googleSuggestions)

\* afterFetch with the check of the cancelled flag (line 2305) left out.
afterFetchUnguarded(s, r, primary, google) ==
  [s EXCEPT
     !.suggestRuns = @ \ {r},
     !.suggestionAbortRef = IF @ = r.ctl THEN NoCtl ELSE @,
     !.suggestionsCacheRef[r.q] =
        [present |-> TRUE,
         value |-> IF r.aborted \/ primary # "ok" THEN <<>> ELSE <<Suggestion(r.q, "geocode")>>,
         timestamp |-> s.now],
     !.dynamicSuggestions =
        IF r.aborted \/ primary # "ok" THEN <<>> ELSE <<Suggestion(r.q, "geocode")>>,
     !.isSuggesting = FALSE]

\* Lines 2304-2314: loadSuggestions after fetchDynamicSuggestions returned.
afterFetch(s, r, primary, google) ==
  LET suggestions == fetchDynamicSuggestions(r, primary, google)
      s1 == [s EXCEPT !.suggestRuns = @ \ {r}]
  IN IF r.cancelled THEN s1
     ELSE [s1 EXCEPT
             !.suggestionAbortRef = IF @ = r.ctl THEN NoCtl ELSE @,
             !.suggestionsCacheRef[r.q] = Entry(suggestions, s.now),
             !.dynamicSuggestions = suggestions,
             !.isSuggesting = FALSE]

(***************************************************************************)
(* Re-render: the effects whose dependencies a task changed, in source     *)
(* order.  s0 is the state the previous render saw, s1 the state after the *)
(* task.  The render and its effects run before the next task.             *)
(***************************************************************************)
\* Lines 2132-2140 and 2182-2222 (the part that mounts the search).
searchOpenEffect(s0, s1) ==
  IF s0.isSearchOpen = s1.isSearchOpen THEN s1
  ELSE IF s1.isSearchOpen
    THEN [s1 EXCEPT !.searchboxSessionTokenRef = "tok", !.renderSearch = TRUE]
    ELSE [s1 EXCEPT !.searchboxSessionTokenRef = ""]

\* Lines 2224-2264; the cleanup of line 2262 first.
onboardingEffect(s0, s1, hasLayer) ==
  IF s0.onboardingPhase = s1.onboardingPhase THEN s1
  ELSE
    LET s2 == [s1 EXCEPT !.moveendListeners = SelectSeq(@, LAMBDA l : l.kind # "onMoveEnd")]
    IN IF s2.onboardingPhase = "visible"
         THEN setViewModeState([s2 EXCEPT !.hasCompletedOnboardingRef = FALSE], "instructions")
       ELSE IF s2.mapRef /\ s2.onboardingPhase = "exiting" /\ ~s2.hasCompletedOnboardingRef
         THEN LET s3 == [stopMap(s2, hasLayer) EXCEPT
                           !.hasCompletedOnboardingRef = TRUE,
                           !.projection = "globe"]
              IN [animate(s3, Camera("easeTo", "globe", 21, 0, 0)) EXCEPT
                    !.padding = "centered",
                    !.moveendListeners =
                       Append(@, Listener("onMoveEnd", 0, "globe", 21, 0, 0, FALSE, FALSE))]
       ELSE s2

suggestEffect(s0, s1) ==
  IF s0.query = s1.query /\ s0.isSearchOpen = s1.isSearchOpen THEN s1
  ELSE loadSuggestions(s1)

\* Lines 2157-2165: when the search, the events modal or the onboarding
\* phase changed, the effect clears its 280 ms timer and sets a new one.  The
\* timer remembers what set it: "lookup" when the events modal opened, which
\* the answer of a place lookup alone does (line 909), else "other".
resizeEffect(s0, s1) ==
  IF /\ s0.renderSearch = s1.renderSearch /\ s0.isSearchOpen = s1.isSearchOpen
     /\ s0.isEventsModalOpen = s1.isEventsModalOpen
     /\ s0.onboardingPhase = s1.onboardingPhase
    THEN s1
  ELSE [s1 EXCEPT !.resizeTimer =
          IF s1.isEventsModalOpen /\ ~s0.isEventsModalOpen THEN "lookup" ELSE "other"]

\* Lines 123-149.  blank: the style is loaded and no feature but symbols is
\* rendered at the center of the map.  isRepairingMobileRef is down again
\* 220 ms after a repair, before a later timer of the effect (280 ms) fires.
repairMobileGlobeIfBlank(s, blank) ==
  IF ~s.mapRef \/ ~s.isMobile \/ ~blank THEN s
  ELSE IF s.projection = "globe" THEN [s EXCEPT !.projection = "mercator"]
  ELSE s

Effects(s0, s1, hasLayer) ==
  suggestEffect(s0, onboardingEffect(s0, searchOpenEffect(s0, resizeEffect(s0, s1)), hasLayer))

\* A task is allowed when it stays inside the bounds of the model.
Within(s) ==
  /\ (s.nextSuggestCtl - 1) + (s.nextSearchCtl - 1) <= MaxRequests
  /\ s.cameraTransitionRef <= MaxGen

\* The end of a task: re-render, then the new state.
Task(op, s1, hasLayer) ==
  LET s2 == [Effects(St, s1, hasLayer) EXCEPT !.lastOp = op]
  IN Within(s2) /\ Commit(s2)

(***************************************************************************)
(* Resolve requests: searchLocation and selectResult.                      *)
(***************************************************************************)
QuickResult(name) == [kind |-> "quick", name |-> name, src |-> ""]
LandmarkResult(name) == [kind |-> "landmark", name |-> name, src |-> ""]
DynamicResult(sg) == [kind |-> "dynamic", name |-> sg.name, src |-> sg.src]

MapSeq(f(_), seq) == [i \in 1..Len(seq) |-> f(seq[i])]

\* The subtitle of a result row.
resultSubtitle(result) ==
  IF result.kind = "dynamic" THEN providerSubtitle(result.name, result.src)
  ELSE tableSubtitle(result.name)

\* The key of the seen-set of displayResults (lines 654, 661 and 668).
resultKey(result) == result.name \o "|" \o resultSubtitle(result)

\* The rows of displayResults with the loops of lines 651-673 in the
\* opposite order.
candidateResultsQuickFirst(s) ==
  MapSeq(QuickResult, filteredLocations(s.query))
  \o MapSeq(DynamicResult, s.dynamicSuggestions)
  \o MapSeq(LandmarkResult, matchingLandmarks(s.query))

\* The rows displayResults chooses from, in priority order.
candidateResults(s) ==
  MapSeq(LandmarkResult, matchingLandmarks(s.query))
  \o MapSeq(DynamicResult, s.dynamicSuggestions)
  \o MapSeq(QuickResult, filteredLocations(s.query))

\* Lines 646-676.
displayResults(s) ==
  IF s.query = "" THEN MapSeq(QuickResult, quickLocations)
  ELSE
    LET candidates == candidateResults(s)
        combined == dedupe(candidates, MapSeq(resultKey, candidates), {})
    IN SubSeq(combined, 1, Min(5, Len(combined)))

\* A resolve request in flight: its controller (and whether that was
\* aborted), the function running it, the query and the call it awaits.
\* superseded and overtaken are history: a later resolve request was
\* started, respectively a later navigation was served without a request.
ResolveRun(ctl, kind, q, step) ==
  [ctl |-> ctl, aborted |-> FALSE, kind |-> kind, q |-> q, step |-> step,
   overtaken |-> FALSE]

\* What the adapter a request awaits at a step hands to its caller when the
\* signal is aborted during the call.  The fetch rejects with AbortError.
\* The Mapbox adapters await it outside of any try block (lines 1608, 1627,
\* 1687, 1733 and 1753), so they reject too; searchWithGooglePlaces catches
\* the error and returns no feature and no error (lines 1375-1378), after
\* which searchLocation calls searchWithMapbox with the aborted signal (line
\* 1944), and that call rejects.
abortedCall(step) == IF step = "google" THEN "empty" ELSE "AbortError"

\* searchAbortRef.current.abort(): the call the request awaits is aborted.
abortSearch(s) ==
  [s EXCEPT !.resolveRuns =
     {IF r.ctl = s.searchAbortRef
        THEN [r EXCEPT !.aborted = TRUE,
                       !.step = IF abortedCall(@) = "AbortError" THEN "rejected" ELSE @]
        ELSE r : r \in @}]

\* startResolve with the abort of the previous controller left out.
startResolveWithoutAbort(s) ==
  [s EXCEPT !.isSearching = TRUE, !.searchError = "",
            !.searchAbortRef = s.nextSearchCtl,
            !.nextSearchCtl = @ + 1]

\* Lines 946-954 and 1878-1885: the loading flag, then the previous
\* controller is aborted and a new one becomes the active one.
startResolve(s) ==
  LET s1 == abortSearch([s EXCEPT !.isSearching = TRUE, !.searchError = ""])
  IN [s1 EXCEPT !.searchAbortRef = s.nextSearchCtl,
                !.nextSearchCtl = @ + 1]

\* finallyResolve with the reset of the loading flag left out.
finallyResolveKeepsIndicator(s, r) ==
  LET s1 == [s EXCEPT !.resolveRuns = {x \in @ : x.ctl # r.ctl}]
  IN IF s1.searchAbortRef = r.ctl THEN [s1 EXCEPT !.searchAbortRef = NoCtl] ELSE s1

\* The finally blocks (lines 970-975 and 1967-1972); the run is over.
finallyResolve(s, r) ==
  LET s1 == [s EXCEPT !.resolveRuns = {x \in @ : x.ctl # r.ctl}]
  IN IF s1.searchAbortRef = r.ctl
       THEN [s1 EXCEPT !.searchAbortRef = NoCtl, !.isSearching = FALSE]
       ELSE s1

\* Lines 1955-1963.
commitSearch(s, r, feature, hasLayer) ==
  LET s1 == [s EXCEPT !.searchCacheRef[r.q] = Entry(feature, s.now)]
      s2 == fetchAssociatedEvents(s1, feature.text)
  IN finallyResolve(flyToFeature(s2, feature, hasLayer), r)

\* Lines 1949-1953.
noLocationFound(s, r) ==
  finallyResolve([s EXCEPT !.searchError = "No location found. Try a more specific search.",
                           !.isSearching = FALSE], r)

\* catchSearch without the test for AbortError (line 1965).
catchSearchAnyError(s, r, isAbortError) ==
  [s EXCEPT !.searchError = "Could not search this location right now.",
            !.resolveRuns = {x \in @ : x.ctl # r.ctl},
            !.searchAbortRef = IF @ = r.ctl THEN NoCtl ELSE @,
            !.isSearching = IF s.searchAbortRef = r.ctl THEN FALSE ELSE @]

\* Lines 1964-1966: a call of searchLocation threw.
catchSearch(s, r, isAbortError) ==
  finallyResolve(IF isAbortError THEN s
                 ELSE [s EXCEPT !.searchError = "Could not search this location right now."], r)

\* Lines 966-969: the call of selectResult threw.
catchSelect(s, r, isAbortError) ==
  finallyResolve(IF isAbortError THEN s
                 ELSE [s EXCEPT !.searchError = "Could not open this location."], r)

waitFor(s, r, step) ==
  [s EXCEPT !.resolveRuns = {IF x.ctl = r.ctl THEN [x EXCEPT !.step = step] ELSE x : x \in @}]

\* Lines 1943-1945: the last resort, a second stateless geocode call.
secondMapbox(s, r) == waitFor(s, r, "mapbox2")

\* googleStage without the test of the breaker (line 1914).
googleStageAnyway(s, r) ==
  IF ~s.googleApiKey THEN secondMapbox(s, r) ELSE waitFor(s, r, "google")

\* Lines 1913-1916: no feature so far; the commercial provider is asked when
\* there is a key and the breaker is open, else the last resort follows.
googleStage(s, r) ==
  IF s.googleDisabledRef \/ ~s.googleApiKey THEN secondMapbox(s, r)
  ELSE waitFor(s, r, "google")

\* retrieveStage that leaves the top suggestion alone.
retrieveStageSkipped(s, r, hasLayer) == googleStage(s, r)

\* Lines 1667-1676 as called from line 1900: retrieve for the top suggestion,
\* answered from the cache when it holds a fresh entry.
retrieveStage(s, r, hasLayer) ==
  LET s1 == ensureSessionToken(s)
      cached == s1.searchCacheRef[retrieveKey(mapboxId(r.q))]
  IN IF isFresh(s1, cached)
       THEN IF cached.value.center THEN commitSearch(s1, r, cached.value, hasLayer)
            ELSE googleStage(s1, r)
       ELSE waitFor(s1, r, "retrieve")

\* Line 1719.
storeRetrieved(s, r) ==
  [s EXCEPT !.searchCacheRef[retrieveKey(mapboxId(r.q))] = Entry(retrievedFeature(r.q), s.now)]

\* Lines 1920-1938.  error is "disabled" (the response says SERVICE_DISABLED
\* or "not been used"), "denied" (REQUEST_DENIED) or "fail" (any other error
\* response, or the provider could not be reached).
googleError(s, r, error) ==
  LET hint == CASE error = "disabled" -> "Enable Places API (New) in Google Cloud, then retry."
                [] error = "denied" ->
                     "Check API key restrictions and allow localhost:5173 as an HTTP referrer."
                [] OTHER -> ""
  IN finallyResolve([s EXCEPT
       !.googleDisabledRef = IF error \in {"disabled", "denied"} THEN TRUE ELSE @,
       !.searchError = IF hint # "" THEN hint ELSE "Google Places search failed.",
       !.isSearching = FALSE], r)

\* Lines 1887-1973: searchLocation resumes after the call it awaited.
\* outcome is "feature" (a result with a center, or a non-empty suggestion
\* list), "none" (no result), "http" (an error response), "fail" (the call
\* failed), or "denied" or "disabled" (the two permission error responses
\* of the commercial provider).  The Mapbox adapters answer an error
\* response with no result (lines 1734-1736, 1754-1756).  A call whose signal was aborted rejects with AbortError;
\* searchWithGooglePlaces turns that into an empty result.
resumeSearch(s, r, outcome, hasLayer) ==
  IF r.aborted THEN catchSearch(s, r, TRUE)
  ELSE IF outcome = "http" /\ r.step = "google" THEN googleError(s, r, "fail")
  ELSE CASE r.step = "focused" ->
              IF outcome = "fail" THEN catchSearch(s, r, FALSE)
              ELSE IF outcome = "feature" THEN commitSearch(s, r, geocodeFeature(r.q), hasLayer)
              ELSE waitFor(ensureSessionToken(s), r, "suggest")
         [] r.step = "suggest" ->
              IF outcome = "fail" THEN catchSearch(s, r, FALSE)
              ELSE IF outcome = "feature" THEN retrieveStage(s, r, hasLayer)
              ELSE googleStage(s, r)
         [] r.step = "retrieve" ->
              IF outcome = "fail" THEN catchSearch(s, r, FALSE)
              ELSE IF outcome = "feature"
                THEN commitSearch(storeRetrieved(s, r), r, retrievedFeature(r.q), hasLayer)
              ELSE googleStage(s, r)
         [] r.step = "mapbox" ->
              IF outcome = "fail" THEN catchSearch(s, r, FALSE)
              ELSE IF outcome = "feature" THEN commitSearch(s, r, geocodeFeature(r.q), hasLayer)
              ELSE googleStage(s, r)
         [] r.step = "google" ->
              IF outcome \in {"fail", "denied", "disabled"} THEN googleError(s, r, outcome)
              ELSE IF outcome = "feature" THEN commitSearch(s, r, googleFeature(r.q), hasLayer)
              ELSE secondMapbox(s, r)
         [] r.step = "mapbox2" ->
              IF outcome = "fail" THEN catchSearch(s, r, FALSE)
              ELSE IF outcome = "feature" THEN commitSearch(s, r, geocodeFeature(r.q), hasLayer)
              ELSE noLocationFound(s, r)

\* Lines 956-975: selectResult resumes after retrieveSearchboxFeature.
resumeSelect(s, r, outcome, hasLayer) ==
  IF r.aborted THEN catchSelect(s, r, TRUE)
  ELSE IF outcome = "fail" THEN catchSelect(s, r, FALSE)
  ELSE IF outcome = "feature"
    THEN LET s1 == fetchAssociatedEvents(storeRetrieved(s, r), retrievedFeature(r.q).text)
         IN finallyResolve(flyToFeature(s1, retrievedFeature(r.q), hasLayer), r)
  ELSE finallyResolve([s EXCEPT !.searchError = "Could not open this location."], r)

resume(s, r, outcome, hasLayer) ==
  IF r.kind = "search" THEN resumeSearch(s, r, outcome, hasLayer)
                       ELSE resumeSelect(s, r, outcome, hasLayer)

\* Lines 915-977.
selectResult(s, result, hasLayer) ==
  CASE result.kind = "landmark" ->
         flyToFeature(fetchAssociatedEvents(s, result.name), landmarkFeature(result.name), hasLayer)
    [] result.kind = "quick" ->
         flyToLocation(fetchAssociatedEvents(s, result.name), result.name,
                       quickCamera(result.name), FALSE, FALSE, hasLayer)
    [] result.kind = "dynamic" /\ result.src # "searchbox" ->
         LET feature == suggestionFeature([name |-> result.name, src |-> result.src])
         IN flyToFeature(fetchAssociatedEvents(s, feature.text), feature, hasLayer)
    [] OTHER ->
         LET s1 == ensureSessionToken(startResolve(s))
             r == ResolveRun(s.nextSearchCtl, "select", result.name, "retrieve")
             cached == s1.searchCacheRef[retrieveKey(mapboxId(result.name))]
             s2 == [s1 EXCEPT !.resolveRuns = @ \cup {r}]
         IN IF isFresh(s1, cached)
              THEN LET s3 == fetchAssociatedEvents(s2, cached.value.text)
                   IN finallyResolve(flyToFeature(s3, cached.value, hasLayer), r)
              ELSE s2

\* Lines 1816-1973: searchLocation up to its first await.  activeResult is
\* displayResults[activeLocationIndex], or none.
searchLocation(s, hasActive, activeResult, hasLayer) ==
  LET normalizedQuery == s.query
      quick == exactQuickLocation(normalizedQuery)
      cachedSearch == s.searchCacheRef[normalizedQuery]
  IN IF s.query = "" /\ hasActive THEN selectResult(s, activeResult, hasLayer)
     ELSE IF s.query # "" /\ s.manualSelection /\ hasActive
       THEN selectResult(s, activeResult, hasLayer)
     ELSE IF s.query = ""
       THEN flyToLocation(fetchAssociatedEvents(s, quickLocations[1]), quickLocations[1],
                          quickCamera(quickLocations[1]), FALSE, FALSE, hasLayer)
     ELSE IF quick # ""
       THEN flyToLocation(fetchAssociatedEvents(s, quick), quick, quickCamera(quick),
                          FALSE, FALSE, hasLayer)
     ELSE IF ~s.mapRef THEN s
     ELSE IF isFresh(s, cachedSearch) THEN flyToFeature(s, cachedSearch.value, hasLayer)
     ELSE LET s1 == startResolve(s)
              step == IF queryIntent[s.query] = "specific" THEN "focused" ELSE "mapbox"
          IN [s1 EXCEPT !.resolveRuns = @ \cup {ResolveRun(s.nextSearchCtl, "search", s.query, step)}]

(***************************************************************************)
(* Tasks.                                                                  *)
(***************************************************************************)
\* The mount effect creates the render surface (lines 2324-2333) and adds
\* the keydown listener (line 2458).
MapCreated ==
  /\ ~reloaded /\ ~mapRef
  /\ Task(NoOp, [St EXCEPT !.mapRef = TRUE], FALSE)

\* App.handleExplore (line 19).
Explore ==
  /\ ~reloaded /\ onboardingPhase = "visible"
  /\ \E hasLayer \in BOOLEAN :
       Task(NoOp, [St EXCEPT !.onboardingPhase = "exiting"], hasLayer)

\* The 650 ms timer of App (lines 9-17).
OnboardingTimer ==
  /\ ~reloaded /\ onboardingPhase = "exiting"
  /\ Task(NoOp, [St EXCEPT !.onboardingPhase = "done"], FALSE)

\* Lines 1975-1980; the launcher is rendered at lines 2583-2606.
handleSearchLauncherClick ==
  /\ ~reloaded /\ onboardingPhase = "done" /\ ~renderSearch
  /\ Task(NoOp, [St EXCEPT !.searchError = "", !.manualSelection = FALSE,
                           !.isSearchOpen = TRUE], FALSE)

\* Lines 2412-2430; searchOpenRef mirrors isSearchOpen (line 2133).
toggleSearch(s) ==
  LET nextOpen == ~s.isSearchOpen
      s1 == [abortSuggestion(s) EXCEPT
               !.searchError = "",
               !.isSearchOpen = nextOpen,
               !.manualSelection = FALSE,
               !.suggestionAbortRef = NoCtl]
  IN IF nextOpen THEN s1 ELSE [s1 EXCEPT !.query = "", !.dynamicSuggestions = <<>>]

CommandK ==
  /\ ~reloaded /\ mapRef
  /\ Task(NoOp, toggleSearch(St), FALSE)

\* Lines 2434-2438 and the backdrop handler, lines 2610-2615.
closeSearch(s) ==
  [s EXCEPT !.searchError = "", !.isSearchOpen = FALSE, !.dynamicSuggestions = <<>>]

\* Lines 2432-2455.
escapeKey(s, hasLayer) ==
  IF s.isSearchOpen THEN closeSearch(s)
  ELSE IF s.isEventsModalOpen
    THEN returnToBrowseGlobeView([s EXCEPT !.isEventsModalOpen = FALSE,
                                           !.eventsModalLocation = "",
                                           !.lastEventsLookupRef = ""], hasLayer)
  ELSE IF s.viewMode = "browse" THEN returnToInstructionsView(s, hasLayer)
  ELSE returnToBrowseGlobeView(s, hasLayer)

Escape ==
  /\ ~reloaded /\ mapRef
  /\ \E hasLayer \in BOOLEAN : Task(NoOp, escapeKey(St, hasLayer), hasLayer)

BackdropMouseDown ==
  /\ ~reloaded /\ renderSearch
  /\ Task(NoOp, closeSearch(St), FALSE)

\* Lines 2095-2102; the button is rendered at lines 2572-2582.
handleBackButtonClick ==
  /\ ~reloaded /\ onboardingPhase = "done" /\ ~renderSearch
  /\ \E hasLayer \in BOOLEAN :
       Task(NoOp, returnToInstructionsView(St, hasLayer), hasLayer)

\* The onChange handler of the input, lines 2630-2634.
Type(q) ==
  /\ ~reloaded /\ renderSearch /\ q # query
  /\ Task(NoOp, [St EXCEPT !.query = q, !.manualSelection = FALSE], FALSE)

TypeQuery == \E q \in Queries : Type(q)
TypeLetter == Type("q")
TypeDigit == Type("5")
TypeLon == Type("lon")
TypeLondon == Type("london")
TypeTokyo == Type("tokyo")
TypeAddress == Type("350 5th ave")
ClearQuery == Type("")
TypeRetrieveKey == Type("retrieve:mbx.5")

\* Arrow keys and hover, lines 2107-2121 and 2654-2657.
SelectManually ==
  /\ ~reloaded /\ renderSearch /\ ~manualSelection
  /\ Len(displayResults(St)) > 0
  /\ Task(NoOp, [St EXCEPT !.manualSelection = TRUE], FALSE)

\* History: the requests in flight when a navigation was served without
\* starting a request are marked overtaken.
markOvertaken(s0, s1) ==
  IF s1.nextSearchCtl = s0.nextSearchCtl /\ s1.cameraTransitionRef > s0.cameraTransitionRef
    THEN [s1 EXCEPT !.resolveRuns = {[r EXCEPT !.overtaken = TRUE] : r \in @}]
    ELSE s1

\* The form's onSubmit (line 2617).
Submit ==
  /\ ~reloaded /\ renderSearch
  /\ LET results == displayResults(St)
         indexes == IF manualSelection THEN 1..Min(MaxRow, Len(results))
                    ELSE 1..Min(1, Len(results))
     IN \E hasLayer \in BOOLEAN :
          \/ /\ results = <<>>
             /\ Task(NoOp, markOvertaken(St, searchLocation(St, FALSE, QuickResult(""), hasLayer)),
                     hasLayer)
          \/ \E i \in indexes :
               Task(NoOp, markOvertaken(St, searchLocation(St, TRUE, results[i], hasLayer)),
                    hasLayer)

\* A click on a result row (line 2658), or Enter on the empty query
\* (lines 2123-2129).
ClickResult ==
  /\ ~reloaded /\ renderSearch
  /\ \E i \in 1..Min(MaxRow, Len(displayResults(St))), hasLayer \in BOOLEAN :
       Task(NoOp, markOvertaken(St, selectResult(St, displayResults(St)[i], hasLayer)), hasLayer)

\* The 240 ms timer that unmounts the closed search (lines 2211-2214).
CloseAnimationDone ==
  /\ ~reloaded /\ ~isSearchOpen /\ renderSearch
  /\ Task(NoOp, [St EXCEPT !.renderSearch = FALSE], FALSE)

\* Time passes.
Tick ==
  /\ ~reloaded /\ now < MaxTicks * CACHE_TTL_MS
  /\ Task(NoOp, [St EXCEPT !.now = @ + CACHE_TTL_MS], FALSE)

\* The running animation ends.
MoveEnd ==
  /\ ~reloaded /\ moving
  /\ \E hasLayer \in BOOLEAN :
       Task(Op("moveend", NoCtl, "", ""), fireMoveEnd(St, hasLayer), hasLayer)

\* The render surface signals idle: every once('idle') listener runs.
Idle ==
  /\ ~reloaded /\ ~moving /\ idleListeners # <<>>
  /\ \E hasRendered3D \in BOOLEAN :
       Task(Op("idle", NoCtl,
               IF \A i \in 1..Len(idleListeners) : idleListeners[i].gen # cameraTransitionRef
                 THEN "stale" ELSE "current", ""),
            runIdleListeners([St EXCEPT !.idleListeners = <<>>], idleListeners, hasRendered3D),
            FALSE)

\* The debounce timer of a run of loadSuggestions fires.
DebounceElapsed ==
  /\ ~reloaded
  /\ \E r \in suggestRuns :
       /\ r.phase = "debounce"
       /\ Task(Op("afterDebounce", r.ctl, IF r.cancelled THEN "cancelled" ELSE "live", ""),
               afterDebounce(St, r), FALSE)

\* History: the commercial provider answers the call a request issued to it
\* with a permission or service-disabled error response.
refusedBy(s, answered) == [s EXCEPT !.googleRefused = @ \/ answered]

\* The provider calls of a run of loadSuggestions have all completed.
SuggestionsFetched ==
  /\ ~reloaded
  /\ \E r \in suggestRuns, primary \in {"ok", "http", "fail"},
        google \in {"ok", "fail", "denied"} :
       /\ r.phase = "fetch"
       /\ google = "denied" => "google" \in r.calls
       /\ Task(Op("afterFetch", r.ctl, IF r.cancelled THEN "cancelled" ELSE "live",
                  IF r.aborted THEN "aborted" ELSE primary),
               refusedBy(afterFetch(St, r, primary, google), google = "denied" /\ ~r.aborted),
               FALSE)

\* History: how a resolve request stands when the call it awaits completes.
standing(r) ==
  IF r.ctl # nextSearchCtl - 1 THEN "superseded"
  ELSE IF r.overtaken THEN "overtaken" ELSE "live"

\* The call a resolve request awaits completes.
ResolveReturn ==
  /\ ~reloaded
  /\ \E r \in resolveRuns, hasLayer \in BOOLEAN,
        outcome \in {"feature", "none", "http", "fail", "denied", "disabled"} :
       /\ outcome \in {"denied", "disabled"} => r.step = "google"
       /\ Task(Op("resume", r.ctl, standing(r), IF r.aborted THEN "aborted" ELSE outcome),
               refusedBy(resume(St, r, outcome, hasLayer),
                         outcome \in {"denied", "disabled"} /\ ~r.aborted),
               hasLayer)

\* Lines 887-912: the backend answers a place lookup, or the lookup fails.
EventsLookupDone ==
  /\ ~reloaded
  /\ \E name \in eventLookups, ok \in BOOLEAN :
       LET s1 == [St EXCEPT !.eventLookups = @ \ {name}]
       IN Task(Op("lookupDone", 0, "", IF ok THEN "ok" ELSE "fail"),
               IF ok THEN [s1 EXCEPT !.eventsModalLocation = name, !.isEventsModalOpen = TRUE]
                     ELSE s1, FALSE)

\* The 280 ms timer of the resize effect fires (lines 2159-2162).
ResizeTimer ==
  /\ ~reloaded /\ resizeTimer # ""
  /\ \E blank \in BOOLEAN :
       Task(Op("repair", 0, resizeTimer, IF blank THEN "blank" ELSE "drawn"),
            repairMobileGlobeIfBlank([St EXCEPT !.resizeTimer = ""], blank), FALSE)

Next ==
  \/ MapCreated
  \/ Explore
  \/ OnboardingTimer
  \/ handleSearchLauncherClick
  \/ CommandK
  \/ Escape
  \/ BackdropMouseDown
  \/ handleBackButtonClick
  \/ TypeQuery
  \/ SelectManually
  \/ Submit
  \/ ClickResult
  \/ CloseAnimationDone
  \/ Tick
  \/ MoveEnd
  \/ Idle
  \/ DebounceElapsed
  \/ SuggestionsFetched
  \/ ResolveReturn
  \/ EventsLookupDone
  \/ ResizeTimer

Spec == Init /\ [][Next]_vars

(***************************************************************************)
(* Specifications.  Spec lets the environment do everything.  Each of the  *)
(* others lets it do a part: the runs of that specification are runs of    *)
(* Spec in which the user and the network do only what its next-state      *)
(* relation lists.  A one-character query starts resolve requests without  *)
(* starting suggestion requests (line 2273).                               *)
(***************************************************************************)
\* The touch-device flag is read by the camera alone (lines 722, 1195, 1983
\* and 2041): the specifications about requests start on a desktop.
InitDesktop == Init /\ ~isMobile

\* Live suggestions alone: opening, closing, typing, the clock.
NextSuggest ==
  \/ CommandK
  \/ BackdropMouseDown
  \/ CloseAnimationDone
  \/ TypeLon
  \/ TypeLondon
  \/ Tick
  \/ DebounceElapsed
  \/ SuggestionsFetched

SuggestSpec == InitDesktop /\ [][NextSuggest]_vars

\* Resolve requests alone.
NextResolve ==
  \/ CommandK
  \/ TypeLetter
  \/ TypeDigit
  \/ ClearQuery
  \/ Submit
  \/ ClickResult
  \/ ResolveReturn

ResolveSpec == InitDesktop /\ [][NextResolve]_vars

\* Suggestion and resolve requests together.
NextSearch ==
  \/ CommandK
  \/ TypeDigit
  \/ TypeAddress
  \/ Submit
  \/ ClickResult
  \/ DebounceElapsed
  \/ SuggestionsFetched
  \/ ResolveReturn

SearchSpec == InitDesktop /\ [][NextSearch]_vars

\* The camera: navigation, the returns to the globe and the signals of the
\* render surface.
NextCamera ==
  \/ CommandK
  \/ Escape
  \/ TypeLetter
  \/ Submit
  \/ ClickResult
  \/ ResolveReturn
  \/ MoveEnd
  \/ Idle

CameraSpec == Init /\ [][NextCamera]_vars

\* Flights alone: a submitted query, its resolve request, the completion
\* signal of the render surface and the return to the globe.
NextFlight ==
  \/ CommandK
  \/ Escape
  \/ TypeLetter
  \/ Submit
  \/ ResolveReturn
  \/ MoveEnd

FlightSpec == Init /\ [][NextFlight]_vars

(***************************************************************************)
(* Properties.                                                             *)
(***************************************************************************)
\* C1: a resolve request that resumes after a later resolve request was
\* started starts no camera transition, stores nothing in the
\* resolved-feature cache and does not set the error message, whatever the
\* call it awaited answered.
C1_SupersededResolveAppliesNothing ==
  [][lastOp'.op = "resume" /\ lastOp'.standing = "superseded"
       => /\ cameraTransitionRef' = cameraTransitionRef
          /\ camera' = camera
          /\ searchCacheRef' = searchCacheRef
          /\ searchError' = searchError]_vars

\* A superseded request has resumed while the request that superseded it is
\* still in flight.
C1_Witness ==
  /\ lastOp.op = "resume" /\ lastOp.standing = "superseded"
  /\ \E r \in resolveRuns : ~r.aborted /\ r.ctl > lastOp.ctl

\* C2: every change of the suggestion list leaves a list that answers the
\* query of that moment, so the list for "lon" is never written after the
\* "london" keystroke; and when no suggestion request is left in flight
\* while the search is open on a query of two or more characters, the list
\* is the result stored for that query.
C2_ListAnswersTheQuery ==
  /\ [](isSearchOpen /\ trimLength(query) >= 2 /\ suggestRuns = {}
          => /\ suggestionsCacheRef[query].present
             /\ dynamicSuggestions = suggestionsCacheRef[query].value)
  /\ [][dynamicSuggestions' # dynamicSuggestions
          => \A i \in 1..Len(dynamicSuggestions') : dynamicSuggestions'[i].name = query']_vars

\* The request for "lon" has resumed, cancelled, after the request for
\* "london" delivered its list: the list shown is still the one for
\* "london".
C2_Witness ==
  /\ lastOp.op = "afterFetch" /\ lastOp.standing = "cancelled"
  /\ query = "london" /\ isSearchOpen /\ suggestRuns = {}
  /\ dynamicSuggestions # <<>>
  /\ ~suggestionsCacheRef["lon"].present

\* C3: when a suggestion request changes the suggestion list or the
\* suggestion cache, suggestionAbortRef held its controller; when a
\* resolve request starts a camera transition or changes the
\* resolved-feature cache, searchAbortRef held its controller.
C3_CommitGuard ==
  [][/\ lastOp'.op = "afterFetch"
        /\ (dynamicSuggestions' # dynamicSuggestions
            \/ suggestionsCacheRef' # suggestionsCacheRef)
        => suggestionAbortRef = lastOp'.ctl
     /\ lastOp'.op = "resume"
        /\ (cameraTransitionRef' # cameraTransitionRef \/ searchCacheRef' # searchCacheRef)
        => searchAbortRef = lastOp'.ctl]_vars

\* A resolve request has started a camera transition after a suggestion
\* request wrote the suggestion cache.
C3_Witness ==
  /\ lastOp.op = "resume" /\ lastOp.outcome = "feature"
  /\ cameraTransitionRef > 0
  /\ \E q \in Queries : suggestionsCacheRef[q].present

\* C4: a resolve request that resumes after a newer navigation was served
\* without a provider call starts no camera transition.
C4_OvertakenResolveIsDiscarded ==
  [][lastOp'.op = "resume" /\ lastOp'.standing = "overtaken"
       => cameraTransitionRef' = cameraTransitionRef /\ camera' = camera]_vars

\* C5: at most one suggestion request with pending provider calls and at
\* most one resolve request has a controller that is not aborted, and
\* after a request is started the controller its category's reference held
\* before is aborted.
C5_OneRequestInFlight ==
  [][/\ Cardinality({r \in suggestRuns' : ~r.aborted /\ r.phase = "fetch"}) <= 1
     /\ Cardinality({r \in resolveRuns' : ~r.aborted}) <= 1
     /\ nextSuggestCtl' > nextSuggestCtl
        => \A r \in suggestRuns' : r.ctl = suggestionAbortRef => r.aborted
     /\ nextSearchCtl' > nextSearchCtl
        => \A r \in resolveRuns' : r.ctl = searchAbortRef => r.aborted]_vars

\* Two resolve requests are in flight, the older one aborted.
C5_Witness ==
  \E r1, r2 \in resolveRuns : r1.ctl < r2.ctl /\ r1.aborted /\ ~r2.aborted

\* C6: a pending completion callback captured under one generation changes
\* nothing when it runs under any other generation.
C6_StaleCallbacksChangeNothing ==
  \A hasLayer \in BOOLEAN, g \in 0..(MaxGen + 1) :
    LET s == [St EXCEPT !.cameraTransitionRef = g]
    IN /\ \A i \in 1..Len(moveendListeners) :
            moveendListeners[i].kind # "onMoveEnd" /\ moveendListeners[i].gen # g
              => runListener(s, moveendListeners[i], hasLayer) = s
       /\ \A i \in 1..Len(idleListeners) :
            idleListeners[i].gen # g => onIdle(s, idleListeners[i], hasLayer) = s

\* The idle signal has run an idle callback of an earlier generation.
C6_Witness ==
  /\ lastOp.op = "idle" /\ lastOp.standing = "stale"
  /\ cameraTransitionRef >= 2

\* C7 as stated: every transition request made from a reachable state,
\* the two returns to the globe included, leaves the generation counter
\* larger than it found it.  On a touch device the two returns reload the
\* page (lines 1983-1986 and 2041-2044) and leave the counter as it is.
C7_EveryRequestIncreases ==
  \A hasLayer \in BOOLEAN :
    /\ \A i \in 1..Len(quickLocations) :
         flyToLocation(St, quickLocations[i], quickCamera(quickLocations[i]),
                       FALSE, FALSE, hasLayer).cameraTransitionRef
           > cameraTransitionRef
    /\ returnToInstructionsView(St, hasLayer).cameraTransitionRef > cameraTransitionRef
    /\ returnToBrowseGlobeView(St, hasLayer).cameraTransitionRef > cameraTransitionRef

\* C7: every flight to a place or to a feature that has a center, and on a
\* device that is no touch device every return to the globe, leaves the
\* generation counter larger than it found it; no task makes the counter
\* smaller.
C7_GenerationIncreases ==
  /\ [](\A hasLayer \in BOOLEAN :
          /\ \A i \in 1..Len(quickLocations), prefer3D \in BOOLEAN :
               flyToLocation(St, quickLocations[i], quickCamera(quickLocations[i]),
                             prefer3D, prefer3D, hasLayer).cameraTransitionRef
                 > cameraTransitionRef
          /\ \A q \in Queries \ {""} :
               \A f \in {geocodeFeature(q), googleFeature(q), retrievedFeature(q)} :
                 flyToFeature(St, f, hasLayer).cameraTransitionRef > cameraTransitionRef
          /\ ~isMobile
               => /\ returnToInstructionsView(St, hasLayer).cameraTransitionRef
                       > cameraTransitionRef
                  /\ returnToBrowseGlobeView(St, hasLayer).cameraTransitionRef
                       > cameraTransitionRef)
  /\ [][cameraTransitionRef' >= cameraTransitionRef]_vars

\* A return to the globe after the flight to a resolved feature, at the
\* largest generation of the model.
C7_Witness ==
  /\ cameraTransitionRef = MaxGen
  /\ camera.target = "globe" /\ camera.op = "flyTo"
  /\ \E q \in Queries : searchCacheRef[q].present

\* C8: a suggestion request cancelled while it waits for its debounce delay
\* never issues a provider call.
C8_CancelledDebounceIssuesNoCall ==
  [][\A r \in suggestRuns : r.phase = "debounce" /\ r.cancelled
       => \A x \in suggestRuns' : x.ctl = r.ctl => x.phase = "debounce" /\ x.calls = {}]_vars

\* The debounce delay of a cancelled request has elapsed.
C8_Witness ==
  /\ lastOp.op = "afterDebounce" /\ lastOp.standing = "cancelled"
  /\ \A r \in suggestRuns : r.ctl # lastOp.ctl

\* C9: a suggestion request that resumes cancelled and a resolve request
\* that resumes aborted leave the error message, the suggestion list, both
\* caches and both loading indicators as they were.
C9_CancelledRequestSurfacesNothing ==
  [][(\/ lastOp'.op \in {"afterDebounce", "afterFetch"} /\ lastOp'.standing = "cancelled"
      \/ lastOp'.op = "afterFetch" /\ lastOp'.outcome = "aborted"
      \/ lastOp'.op = "resume" /\ lastOp'.outcome = "aborted")
       => UNCHANGED <<searchError, dynamicSuggestions, suggestionsCacheRef, searchCacheRef,
                      isSuggesting, isSearching>>]_vars

\* An aborted resolve request has resumed while the request that replaced
\* it still shows its loading indicator.
C9_Witness ==
  /\ lastOp.op = "resume" /\ lastOp.outcome = "aborted"
  /\ isSearching

\* C10: when the active request of a category ends with a failure that is
\* no cancellation, an error message is set and the loading indicator of
\* the category is cleared.
C10_FailureSetsOneMessage ==
  [][/\ lastOp'.op = "resume" /\ lastOp'.outcome \in {"fail", "denied", "disabled"}
        /\ searchAbortRef = lastOp'.ctl
        => searchError' # "" /\ ~isSearching'
     /\ lastOp'.op = "afterFetch" /\ lastOp'.outcome \in {"fail", "http"}
        /\ lastOp'.standing = "live"
        => searchError' # "" /\ ~isSuggesting']_vars

(***************************************************************************)
(* The caches.                                                             *)
(***************************************************************************)
\* The caches and the clock: live suggestions and resolve requests for a
\* one-character and a three-character query, while time passes.
NextCache ==
  \/ CommandK
  \/ TypeDigit
  \/ TypeLon
  \/ Tick
  \/ Submit
  \/ DebounceElapsed
  \/ SuggestionsFetched
  \/ ResolveReturn

CacheSpec == InitDesktop /\ [][NextCache]_vars

\* Ages at which a cache entry is read: fresh, and from the expiry on.
FreshAges == {0, 1, CACHE_TTL_MS - 1}
StaleAges == {CACHE_TTL_MS, CACHE_TTL_MS + 1, 2 * CACHE_TTL_MS}

\* The state in which the open search holds query q at age d of an entry.
ReadAt(entry, q, d) ==
  [St EXCEPT !.now = entry.timestamp + d, !.query = q, !.isSearchOpen = TRUE,
             !.manualSelection = FALSE]

\* A resolve request of searchLocation for q that received a suggestion and
\* is about to retrieve it.
RetrieveProbe(q) ==
  [ResolveRun(nextSearchCtl, "search", q, "suggest") EXCEPT !.ctl = nextSearchCtl]

\* C11: an entry of the suggestion cache, of the resolved-feature cache or
\* of the retrieve-by-id cache is served by a read of its key at every age
\* below 600000 ms, and at every age from 600000 ms on the read is a miss and
\* the provider path is taken; every entry written carries the time of the
\* write.
C11_CacheRoundTripAndExpiry ==
  /\ [](
         /\ \A q \in Queries : suggestionsCacheRef[q].present =>
             LET e == suggestionsCacheRef[q]
             IN /\ \A d \in FreshAges :
                     LET t == loadSuggestions(ReadAt(e, q, d))
                     IN /\ t.dynamicSuggestions = e.value
                        /\ t.nextSuggestCtl = nextSuggestCtl
                        /\ ~t.isSuggesting
                /\ \A d \in StaleAges :
                     LET t == loadSuggestions(ReadAt(e, q, d))
                     IN /\ t.nextSuggestCtl = nextSuggestCtl + 1
                        /\ t.suggestionAbortRef = nextSuggestCtl
                        /\ t.isSuggesting
         /\ \A q \in Queries, hasLayer \in BOOLEAN : searchCacheRef[q].present =>
             LET e == searchCacheRef[q]
             IN /\ \A d \in FreshAges :
                     LET t == searchLocation(ReadAt(e, q, d), FALSE, QuickResult(""), hasLayer)
                     IN /\ t.nextSearchCtl = nextSearchCtl
                        /\ t.cameraTransitionRef > cameraTransitionRef
                        /\ t.camera.target = e.value.text
                /\ \A d \in StaleAges :
                     LET t == searchLocation(ReadAt(e, q, d), FALSE, QuickResult(""), hasLayer)
                     IN /\ t.nextSearchCtl = nextSearchCtl + 1
                        /\ t.cameraTransitionRef = cameraTransitionRef
                        /\ \E r \in t.resolveRuns : r.ctl = nextSearchCtl /\ r.q = q
         /\ \A q \in Queries, hasLayer \in BOOLEAN :
             searchCacheRef[retrieveKey(mapboxId(q))].present =>
             LET e == searchCacheRef[retrieveKey(mapboxId(q))]
                 r == RetrieveProbe(q)
                 probe(d) == [ReadAt(e, q, d) EXCEPT !.resolveRuns = @ \cup {r}]
             IN /\ \A d \in FreshAges :
                     LET t == retrieveStage(probe(d), r, hasLayer)
                     IN /\ \A x \in t.resolveRuns : x.ctl # r.ctl
                        /\ t.camera.target = e.value.text
                        /\ t.searchCacheRef[q].value = e.value
                /\ \A d \in StaleAges :
                     LET t == retrieveStage(probe(d), r, hasLayer)
                     IN /\ \E x \in t.resolveRuns : x.ctl = r.ctl /\ x.step = "retrieve"
                        /\ t.cameraTransitionRef = cameraTransitionRef)
  /\ [][/\ \A q \in Queries :
             suggestionsCacheRef'[q] # suggestionsCacheRef[q]
               => suggestionsCacheRef'[q].present /\ suggestionsCacheRef'[q].timestamp = now
        /\ \A k \in SearchKeys :
             searchCacheRef'[k] # searchCacheRef[k]
               => searchCacheRef'[k].present /\ searchCacheRef'[k].timestamp = now]_vars

\* A resolve request retrieves the top suggestion again although the
\* retrieve-by-id cache holds an entry for it: the entry has expired.
C11_Witness ==
  \E r \in resolveRuns :
    /\ r.step = "retrieve" /\ ~r.aborted
    /\ searchCacheRef[retrieveKey(mapboxId(r.q))].present
    /\ now - searchCacheRef[retrieveKey(mapboxId(r.q))].timestamp >= CACHE_TTL_MS
    /\ searchCacheRef[r.q].present

\* Resolve requests for a one-character query and for a query spelled like
\* the key under which the feature retrieved for it is stored.
NextKey ==
  \/ CommandK
  \/ TypeDigit
  \/ TypeRetrieveKey
  \/ Submit
  \/ ResolveReturn

KeySpec == InitDesktop /\ [][NextKey]_vars

\* C12: a resolve request that resumes changes the resolved-feature entry
\* of no query but its own and the retrieve-by-id entry of no provider id
\* but the one it retrieved, and leaves the suggestion cache alone; a
\* suggestion request leaves the resolved-feature and retrieve-by-id
\* entries alone.
C12_CachesAreIndependent ==
  [][/\ lastOp'.op = "resume" =>
          \A r \in resolveRuns : r.ctl = lastOp'.ctl =>
            /\ \A q \in Queries :
                 searchCacheRef'[q] # searchCacheRef[q] => r.kind = "search" /\ q = r.q
            /\ \A q \in Queries :
                 searchCacheRef'[retrieveKey(mapboxId(q))] # searchCacheRef[retrieveKey(mapboxId(q))]
                   => q = r.q /\ r.step = "retrieve"
            /\ suggestionsCacheRef' = suggestionsCacheRef
     /\ lastOp'.op \in {"afterDebounce", "afterFetch"} => searchCacheRef' = searchCacheRef]_vars

\* The (lowercased name, lowercased subtitle) key of a result row.
lowerKey(result) ==
  toLowerCase(result.name) \o "|" \o toLowerCase(resultSubtitle(result))

\* C13: neither the aggregated suggestion list nor the displayed list holds
\* two entries with the same (lowercased name, lowercased subtitle) key, and
\* the displayed entry of a key is the first candidate with that key.
C13_NoDuplicateKeys ==
  /\ \A i, j \in 1..Len(dynamicSuggestions) :
       i # j => suggestionKey(dynamicSuggestions[i]) # suggestionKey(dynamicSuggestions[j])
  /\ LET shown == displayResults(St)
         candidates == candidateResults(St)
     IN /\ \A i, j \in 1..Len(shown) : i # j => lowerKey(shown[i]) # lowerKey(shown[j])
        /\ query # "" =>
             \A i \in 1..Len(shown) : \A j \in 1..Len(candidates) :
               (/\ lowerKey(candidates[j]) = lowerKey(shown[i])
                /\ \A k \in 1..(j - 1) : lowerKey(candidates[k]) # lowerKey(shown[i]))
                 => shown[i] = candidates[j]

\* A step issues a call to the commercial provider: a suggestion run enters
\* its fetch with such a call, or a resolve request starts to await one.
IssuesGoogleCall ==
  \/ \E r \in suggestRuns' :
       /\ r.phase = "fetch" /\ "google" \in r.calls
       /\ \A x \in suggestRuns : x.ctl = r.ctl => x.phase # "fetch"
  \/ \E r \in resolveRuns' :
       /\ r.step = "google"
       /\ \A x \in resolveRuns : x.ctl = r.ctl => x.step # "google"

\* C14: after the commercial provider has answered a call of either path
\* with a permission or service-disabled error response, no step issues a
\* call to it.
C14_NoCallAfterRefusal ==
  [][googleRefused => ~IssuesGoogleCall]_vars

\* C15: once googleDisabledRef is set no step clears it, and no step of the
\* resolve path or of the suggestion path issues a call to the commercial
\* provider.
C15_BreakerLatches ==
  [][googleDisabledRef => googleDisabledRef' /\ ~IssuesGoogleCall]_vars

\* With a key configured and the breaker tripped by a resolve request, a
\* suggestion run fetches from Mapbox alone.
C15_Witness ==
  /\ googleApiKey /\ googleDisabledRef /\ googleRefused
  /\ \E r \in suggestRuns : r.phase = "fetch" /\ r.calls = {"mapbox"} /\ ~r.aborted

\* Navigation with the backend place lookup and the resize timer.
NextLookup ==
  \/ CommandK
  \/ TypeLetter
  \/ Submit
  \/ ResolveReturn
  \/ EventsLookupDone
  \/ ResizeTimer

LookupSpec == Init /\ [][NextLookup]_vars

\* C16: a step that starts a place lookup starts the camera transition as
\* well, and neither the step in which a lookup completes, with an answer or
\* with a failure, nor a timer that step has set changes the camera
\* generation, the projection or the target of the transition.
C16_LookupNeverAltersCamera ==
  [][/\ ~(eventLookups' \subseteq eventLookups)
          => cameraTransitionRef' > cameraTransitionRef /\ moving'
     /\ (\/ lastOp'.op = "lookupDone"
         \/ lastOp'.op = "repair" /\ lastOp'.standing = "lookup")
          => /\ cameraTransitionRef' = cameraTransitionRef
             /\ projection' = projection
             /\ camera' = camera]_vars

\* The search used before and after the mount effect has created the render
\* surface; the keydown listener does not exist before.
NextSurface ==
  \/ MapCreated
  \/ Explore
  \/ OnboardingTimer
  \/ handleSearchLauncherClick
  \/ TypeLondon
  \/ Submit
  \/ ClickResult
  \/ DebounceElapsed
  \/ SuggestionsFetched

\* The component before its mount effect has run, on a desktop.
InitSurface ==
  Constructed /\ mapRef = FALSE /\ Unclassified /\ Unanswered /\ NotLookedUp /\ ~isMobile

SurfaceSpec == InitSurface /\ [][NextSurface]_vars

\* The features flyToFeature is called with.
SomeFeatures ==
  UNION {{geocodeFeature(q), googleFeature(q), retrievedFeature(q)} : q \in Queries}
    \cup {landmarkFeature("Madison Square Garden")}

\* C17: while no render surface exists, flyToLocation and flyToFeature leave
\* the state as it is (the generation, the view mode, the spin flag, the
\* search-open flag, the error message and the registered callbacks
\* included), and a navigation changes none of these.
C17_NoSurfaceNoTransition ==
  /\ [](~mapRef =>
          /\ \A i \in 1..Len(quickLocations), prefer3D, highlightBuilding, hasLayer \in BOOLEAN :
               flyToLocation(St, quickLocations[i], quickCamera(quickLocations[i]),
                             prefer3D, highlightBuilding, hasLayer) = St
          /\ \A feature \in SomeFeatures, hasLayer \in BOOLEAN :
               flyToFeature(St, feature, hasLayer) = St)
  /\ [][~mapRef /\ ~mapRef' /\ eventLookups' # eventLookups
          => UNCHANGED <<cameraTransitionRef, viewMode, spinEnabledRef, isSearchOpen,
                         searchError, moveendListeners, idleListeners, camera, moving>>]_vars

\* A navigation was requested with no render surface: its place lookup is
\* under way, and no transition has started.
C17_Witness ==
  /\ ~mapRef /\ eventLookups # {}
  /\ cameraTransitionRef = 0 /\ isSearchOpen /\ viewMode = "instructions"

\* The query "tokyo" and, beside it, a broad query the table does not hold.
NextTokyo ==
  \/ CommandK
  \/ TypeTokyo
  \/ TypeLetter
  \/ Submit
  \/ ResolveReturn
  \/ MoveEnd

TokyoSpec == InitDesktop /\ [][NextTokyo]_vars

\* The query "tokyo" is submitted with no manual selection: a handler that
\* is no continuation of a request starts a request or a transition and
\* leaves the query as it is.
SubmitsTokyo ==
  /\ query = "tokyo" /\ query' = "tokyo" /\ ~manualSelection
  /\ lastOp'.op = ""
  /\ nextSearchCtl' # nextSearchCtl \/ cameraTransitionRef' # cameraTransitionRef

NoLocationFound == "No location found. Try a more specific search."

\* C19: a resolve request for a query classified as specific starts with the
\* focused stateless search; when that returns no feature the suggest call
\* is issued; when suggest returns a suggestion, retrieve is issued for the
\* top one (or answered by a fresh entry of the retrieve cache); the later
\* stages are entered from suggest or retrieve alone, and the "no location
\* found" message is set by the last stage alone.
C19_SpecificFallbackOrder ==
  [][/\ \A x \in resolveRuns' :
          (x.ctl = nextSearchCtl /\ x.kind = "search" /\ queryIntent[x.q] = "specific")
            => x.step = "focused"
     /\ lastOp'.op = "resume" =>
          \A r \in resolveRuns :
            (/\ r.ctl = lastOp'.ctl /\ r.kind = "search" /\ ~r.aborted
             /\ queryIntent[r.q] = "specific")
              => LET after == {x.step : x \in {y \in resolveRuns' : y.ctl = r.ctl}}
                 IN /\ (r.step = "focused" /\ lastOp'.outcome \in {"none", "http"})
                         => after = {"suggest"}
                    /\ (r.step = "suggest" /\ lastOp'.outcome = "feature")
                         => \/ after = {"retrieve"}
                            \/ isFresh(St, searchCacheRef[retrieveKey(mapboxId(r.q))])
                    /\ "suggest" \in after => r.step = "focused"
                    /\ "retrieve" \in after => r.step = "suggest"
                    /\ "google" \in after => r.step \in {"suggest", "retrieve"}
                    /\ "mapbox2" \in after => r.step \in {"suggest", "retrieve", "google"}
                    /\ (searchError' = NoLocationFound /\ searchError # NoLocationFound)
                         => r.step = "mapbox2"]_vars

\* Every stage of the request for "350 5th ave" has come back empty.
C19_Witness ==
  /\ query = "350 5th ave" /\ searchError = NoLocationFound
  /\ lastOp.op = "resume" /\ lastOp.outcome \in {"none", "http"}
  /\ resolveRuns = {} /\ ~searchCacheRef["350 5th ave"].present

(***************************************************************************)
(* The intent classification applied to texts.                             *)
(***************************************************************************)
MaxPieces == 5

\* The pieces the classified texts are put together from: a street word in
\* two letter cases, a landmark keyword, a letter, a digit, a comma, a blank,
\* a hyphen and an underscore.
Pieces ==
  { <<"s", "t">>, <<"S", "t">>, <<"p", "a", "r", "k">>, <<"x">>, <<"1">>,
    <<",">>, <<" ">>, <<"-">>, <<"_">> }

RECURSIVE TextsOf(_)
TextsOf(n) ==
  IF n = 0 THEN {<<>>}
  ELSE LET shorter == TextsOf(n - 1)
       IN shorter \cup {t \o p : t \in shorter, p \in Pieces}

\* A caller (lines 1764 and 1888) passes its query to inferSearchIntent.
Classify ==
  /\ searchIntent = ""
  /\ Commit([St EXCEPT !.searchIntent = inferSearchIntent(textQuery)])

NextIntent == Classify

\* Any text may be the one a caller is about to classify.
InitIntent ==
  /\ Constructed /\ mapRef = TRUE /\ ~isMobile /\ ~googleApiKey
  /\ textQuery \in TextsOf(MaxPieces) /\ searchIntent = "" /\ Unanswered /\ NotLookedUp

IntentSpec == InitIntent /\ [][NextIntent]_vars

\* The heuristic as it is stated: over the trimmed, lower-cased text, a
\* digit, a street-type word, a comma, three tokens or a landmark keyword.
heuristic(text) ==
  LET q == lowerCase(trim(text))
      tokens == runsOf(q, WhiteSpace, TRUE)
      words == {runsOf(q, WordChar, FALSE)[i] : i \in 1..Len(runsOf(q, WordChar, FALSE))}
  IN IF \/ \E i \in 1..Len(q) : q[i] \in Digit
        \/ words \cap streetWords # {}
        \/ \E i \in 1..Len(q) : q[i] = ","
        \/ Len(tokens) >= 3
        \/ words \cap landmarkKeywords # {}
     THEN "specific" ELSE "broad"

\* C20: for every text, inferSearchIntent answers "specific" exactly when the
\* trimmed, lower-cased text contains a digit, a street-type word, a comma,
\* at least three tokens separated by white space, or a landmark keyword, and
\* "broad" otherwise; an empty text and a text of white space alone are
\* broad.
C20_IntentMatchesHeuristic ==
  searchIntent # "" =>
    /\ searchIntent = heuristic(textQuery)
    /\ (\A i \in 1..Len(textQuery) : textQuery[i] \in WhiteSpace) => searchIntent = "broad"

\* A text of two tokens whose one mark of a specific query is a landmark
\* keyword has been classified.
C20_Witness ==
  /\ textQuery = <<"x", " ", "p", "a", "r", "k">>
  /\ searchIntent = "specific"

(***************************************************************************)
(* The aggregation of the answers of the two providers.                    *)
(***************************************************************************)
MaxPrimary == 3
MaxCommercial == 2

Candidate(name, subtitle, featureType, src) ==
  [name |-> name, src |-> src, subtitle |-> subtitle, featureType |-> featureType]

\* What the geocoder may answer: places, and a district.
geocodeCandidates ==
  { Candidate("Dubai", "Dubai, United Arab Emirates", "place", "geocode"),
    Candidate("Dubai", "Dubai, India", "place", "geocode"),
    Candidate("Dubai", "Dubai, Oman", "place", "geocode"),
    Candidate("Dubailand", "Dubailand, Dubai, United Arab Emirates", "district", "geocode") }

\* What the session suggest call may answer.
searchboxCandidates ==
  { Candidate("350 5th Ave", "350 5th Ave, New York, United States", "address", "searchbox"),
    Candidate("5th Ave", "5th Ave, New York, United States", "street", "searchbox") }

\* What the commercial provider may answer; its suggestions are all of the
\* feature type 'poi' (line 1436).  The first one is spelled like the
\* geocoder's Dubai but for the letter case of the name.
googleCandidates ==
  { Candidate("dubai", "Dubai, United Arab Emirates", "poi", "google"),
    Candidate("Dubai Mall", "Dubai Mall, Dubai, United Arab Emirates", "poi", "google"),
    Candidate("Empire State Building", "350 5th Ave, New York, NY, USA", "poi", "google") }

\* The lists of at most n different members of a set.
RECURSIVE ListsOf(_, _)
ListsOf(S, n) ==
  IF n = 0 THEN {<<>>}
  ELSE LET shorter == ListsOf(S, n - 1)
       IN shorter \cup {Append(l, c) : l \in shorter, c \in S}

Distinct(list) == \A i, j \in 1..Len(list) : i # j => list[i] # list[j]

AggregatedQueries == {characters("dubai"), characters("dubai oman"), characters("350 5th ave")}

\* A query and the answers of the provider calls lines 1767-1772 make for it.
InitAggregate ==
  /\ Constructed /\ mapRef = TRUE /\ ~isMobile /\ googleApiKey /\ searchIntent = ""
  /\ NotLookedUp
  /\ textQuery \in AggregatedQueries
  /\ \E primary \in {l \in ListsOf(IF inferSearchIntent(textQuery) = "broad"
                                      THEN geocodeCandidates ELSE searchboxCandidates,
                                    MaxPrimary) : Distinct(l)} :
       \E commercial \in {l \in ListsOf(googleCandidates, MaxCommercial) : Distinct(l)} :
          answers = [mapbox |-> primary, google |-> commercial]

\* Lines 1762-1809 and 2311-2313: the primary adapter ranks its answer (lines
\* 1613 and 1664), fetchDynamicSuggestions combines it with the commercial
\* answer and loadSuggestions commits the list.
Aggregate ==
  /\ searchIntent = ""
  /\ LET intent == inferSearchIntent(textQuery)
     IN Commit([St EXCEPT
                  !.searchIntent = intent,
                  !.dynamicSuggestions =
                     combineSuggestions(intent, splitLength(textQuery),
                                        rankSuggestions(answers.mapbox, textQuery),
                                        answers.google)])

NextAggregate == Aggregate

AggregateSpec == InitAggregate /\ [][NextAggregate]_vars

\* The place of a suggestion in a list that holds it.
indexIn(list, sg) == CHOOSE i \in 1..Len(list) : list[i] = sg

\* C21: the committed dynamic suggestion list is in non-increasing score order
\* over all merged entries of all providers, and entries with equal scores
\* keep the order in which the providers' raw answers are aggregated.
C21_CommittedListIsRanked ==
  searchIntent # "" =>
    LET aggregated ==
          combineSuggestions(searchIntent, splitLength(textQuery), answers.mapbox, answers.google)
    IN \A i, j \in 1..Len(dynamicSuggestions) :
         i < j =>
           /\ score(dynamicSuggestions[i], textQuery) >= score(dynamicSuggestions[j], textQuery)
           /\ score(dynamicSuggestions[i], textQuery) = score(dynamicSuggestions[j], textQuery)
                => indexIn(aggregated, dynamicSuggestions[i])
                     < indexIn(aggregated, dynamicSuggestions[j])

\* The entries of a list whose key no earlier entry has.
firstOfKey(list) ==
  LET keep == {i \in 1..Len(list) :
                 \A j \in 1..(i - 1) : suggestionKey(list[j]) # suggestionKey(list[i])}
      nth(k) == CHOOSE i \in keep : Cardinality({j \in keep : j < i}) = k - 1
  IN [k \in 1..Cardinality(keep) |-> list[nth(k)]]

\* C22: for a specific query or a query of at least two tokens the combined
\* list is the commercial provider's results followed by the primary
\* provider's, otherwise the primary provider's followed by the commercial
\* provider's; either way every distinct (name, subtitle) key a provider
\* returned is in the combined list exactly once.
C22_MergePolicy ==
  searchIntent # "" =>
    LET primary == rankSuggestions(answers.mapbox, textQuery)
        commercial == answers.google
        commercialFirst ==
          searchIntent = "specific" \/ Len(runsOf(textQuery, WhiteSpace, TRUE)) >= 2
        returned == {suggestionKey(primary[i]) : i \in 1..Len(primary)}
                      \cup {suggestionKey(commercial[i]) : i \in 1..Len(commercial)}
    IN /\ dynamicSuggestions =
            firstOfKey(IF commercialFirst THEN commercial \o primary ELSE primary \o commercial)
       /\ \A k \in returned :
            Cardinality({i \in 1..Len(dynamicSuggestions) :
                           suggestionKey(dynamicSuggestions[i]) = k}) = 1
       /\ \A i \in 1..Len(dynamicSuggestions) : suggestionKey(dynamicSuggestions[i]) \in returned

\* Both providers answered a broad query of two tokens, the commercial
\* provider with a duplicate of a primary result among its answers.
C22_Witness ==
  /\ textQuery = characters("dubai oman") /\ searchIntent = "broad"
  /\ Len(answers.mapbox) = 2 /\ Len(answers.google) = 2
  /\ Len(dynamicSuggestions) = 3
  /\ dynamicSuggestions[1].src = "google" /\ dynamicSuggestions[3].src = "geocode"

UnitedArabEmirates == lowerCase(characters("Dubai, United Arab Emirates"))

\* C23: for the query "dubai", of two candidates with equal scores from every
\* other score component, the one whose subtitle ends in the segment "United
\* Arab Emirates" is ranked before the one from another country.
C23_DubaiTieBreak ==
  (searchIntent # "" /\ lowerCase(trim(textQuery)) = characters("dubai")) =>
    \A i, j \in 1..Len(dynamicSuggestions) :
      LET a == dynamicSuggestions[i]
          b == dynamicSuggestions[j]
          emirates == SubSeq(UnitedArabEmirates, 8, Len(UnitedArabEmirates))
      IN (/\ matchScore(a, textQuery) = matchScore(b, textQuery)
          /\ lastSegment(characters(a.subtitle)) = emirates
          /\ lastSegment(characters(b.subtitle)) # emirates)
           => i < j

\* The geocoder listed the Dubai of another country first, and the list has
\* the Dubai of the United Arab Emirates in front of it.
C23_Witness ==
  /\ textQuery = characters("dubai") /\ searchIntent = "broad"
  /\ answers.mapbox = << Candidate("Dubai", "Dubai, India", "place", "geocode"),
                         Candidate("Dubai", "Dubai, United Arab Emirates", "place", "geocode") >>
  /\ Len(dynamicSuggestions) >= 2
  /\ dynamicSuggestions[1].subtitle = "Dubai, United Arab Emirates"
  /\ dynamicSuggestions[2].subtitle = "Dubai, India"

\* C24: the displayed result list has at most 5 entries for every query,
\* the empty query included.
C24_AtMostFiveResults == renderSearch => Len(displayResults(St)) <= 5

\* C25: a provider adapter whose cancel signal is aborted during its call
\* returns an empty list or null: no aborted call of a resolve request
\* rejects to the function that awaits it.
C25_AbortedCallsReturnEmpty ==
  \A r \in resolveRuns : r.aborted => r.step # "rejected"

\* C26: the session token is non-empty only while the search is open: the
\* step that opens the search creates one, the step that closes it clears
\* it, and no step creates one while the search is closed.
C26_TokenOnlyWhileOpen ==
  /\ [](searchboxSessionTokenRef # "" => isSearchOpen)
  /\ [][/\ (~isSearchOpen /\ isSearchOpen') => searchboxSessionTokenRef' # ""
        /\ (isSearchOpen /\ ~isSearchOpen') => searchboxSessionTokenRef' = ""
        /\ (~isSearchOpen /\ ~isSearchOpen' /\ searchboxSessionTokenRef = "")
             => searchboxSessionTokenRef' = ""]_vars

\* The final-phase callbacks that wait for the completion signal.
pendingFinals(listeners) ==
  {listeners[i] : i \in {j \in 1..Len(listeners) :
                           listeners[j].kind \in {"runFinalFly", "runFinalBounds"}}}

\* The animation the final phase of a pending callback starts.
finalAnimation(l) ==
  Camera(IF l.kind = "runFinalBounds" THEN "fitBounds" ELSE "flyTo", l.target, l.zoom,
         IF isMobile THEN 0 ELSE l.pitch, IF isMobile THEN 0 ELSE l.bearing)

\* A step that requests a transition to a place.
TransitionRequested ==
  cameraTransitionRef' > cameraTransitionRef /\ camera'.target # "globe"

\* C27: a transition requested while the render surface is in globe
\* projection starts the approach animation and leaves the final phase
\* waiting for the completion signal; the final animation starts only in the
\* step of that signal and only when the generation of the callback is still
\* current.  A transition requested in any other projection runs the final
\* phase in the requesting step, with no approach animation.
C27_TwoPhaseOrdering ==
  [][/\ (TransitionRequested /\ projection = "globe") =>
          /\ moving' /\ projection' = "globe"
          /\ \E l \in pendingFinals(moveendListeners') :
               /\ l.gen = cameraTransitionRef'
               /\ pendingFinals(moveendListeners') = {l}
               /\ camera' # finalAnimation(l)
               /\ camera' = Camera("flyTo", l.target, camera'.zoom, 0, 0)
               /\ camera'.zoom <= l.zoom
     /\ \A l \in pendingFinals(moveendListeners) :
          /\ (/\ l \notin pendingFinals(moveendListeners')
              /\ cameraTransitionRef' = l.gen
              /\ moving' /\ camera' = finalAnimation(l))
               => lastOp'.op = "moveend" /\ cameraTransitionRef = l.gen
          /\ (lastOp'.op = "moveend" /\ cameraTransitionRef # l.gen)
               => camera' = camera /\ ~moving'
     /\ (lastOp'.op = "moveend" /\ pendingFinals(moveendListeners) # {} /\
         \E l \in pendingFinals(moveendListeners) : l.gen = cameraTransitionRef)
          => \E l \in pendingFinals(moveendListeners) :
               moving' /\ camera' = finalAnimation(l)
     /\ (TransitionRequested /\ projection # "globe") =>
          /\ pendingFinals(moveendListeners') = {}
          /\ moving' /\ camera'.op \in {"flyTo", "fitBounds"}
          /\ projection' = "mercator"]_vars

\* The completion signal of an approach animation has started the final
\* animation of a transition that is still current.
C27_Witness ==
  /\ lastOp.op = "moveend" /\ moving
  /\ camera.op \in {"flyTo", "fitBounds"} /\ camera.target # "globe"
  /\ moveendListeners = <<>> /\ cameraTransitionRef >= 2

\* The place types of a feature (lines 1137-1158 and 1172-1178).
PlaceTypes ==
  {"address", "poi", "district", "neighborhood", "postcode", "place", "locality",
   "region", "country", "street"}

\* The cameras a transition is requested with.
Cameras ==
  {getCameraForFeature(Feature("", {t}, FALSE)) : t \in PlaceTypes}
    \cup {quickCamera(quickLocations[i]) : i \in 1..Len(quickLocations)}

\* The state in which the final phase of a center/zoom transition requested
\* now has run while the transition was still current: at once when the
\* projection is not the globe, after the completion signal of the approach
\* animation when it is.
afterFinalPhase(cam, prefer3D, hasLayer) ==
  LET s1 == flyToLocation(St, quickLocations[1], cam, prefer3D, prefer3D, hasLayer)
  IN IF projection = "globe" THEN fireMoveEnd(s1, hasLayer) ELSE s1

\* C28 as stated: the final phase of a still-current center/zoom transition
\* starts its animation in the flat projection, with the pitch and bearing
\* of the target camera when a 3D close-up was requested and with 0 and 0
\* otherwise.  On a touch device the final phase leaves the projection as it
\* is and its pitch and bearing are 0 (lines 722-733).
C28_FinalPhaseIsFlat ==
  \A cam \in Cameras, prefer3D, hasLayer \in BOOLEAN :
    LET s == afterFinalPhase(cam, prefer3D, hasLayer)
    IN /\ s.moving /\ s.camera.op = "flyTo" /\ s.camera.zoom = cam.zoom
       /\ s.projection = "mercator"
       /\ s.camera.pitch = (IF prefer3D THEN cam.pitch ELSE 0)
       /\ s.camera.bearing = (IF prefer3D THEN cam.bearing ELSE 0)

\* C28: on a device that is no touch device, the final phase of a
\* still-current center/zoom transition starts its animation in the flat
\* projection, with the pitch and bearing of the target camera when a 3D
\* close-up was requested and with 0 and 0 otherwise; on a touch device it
\* leaves the projection as it is and the pitch and bearing are 0.
C28_FinalPhaseOffTouchDevices ==
  \A cam \in Cameras, prefer3D, hasLayer \in BOOLEAN :
    LET s == afterFinalPhase(cam, prefer3D, hasLayer)
    IN /\ s.moving /\ s.camera.op = "flyTo" /\ s.camera.zoom = cam.zoom
       /\ ~isMobile =>
            /\ s.projection = "mercator"
            /\ s.camera.pitch = (IF prefer3D THEN cam.pitch ELSE 0)
            /\ s.camera.bearing = (IF prefer3D THEN cam.bearing ELSE 0)
       /\ isMobile =>
            /\ s.projection = projection
            /\ s.camera.pitch = 0 /\ s.camera.bearing = 0

\* The final phase of a 3D close-up has started its animation after the
\* completion signal, on a device that is no touch device.
C28_Witness ==
  /\ ~isMobile /\ lastOp.op = "moveend" /\ moving
  /\ projection = "mercator"
  /\ camera.op = "flyTo" /\ camera.pitch = 60 /\ camera.bearing = 20

\* The place-type lists of the features a transition is requested for: no
\* type, every single type, and lists that mix a small area with a large one.
TypeLists ==
  {{}} \cup {{t} : t \in PlaceTypes}
       \cup {{"place", "poi"}, {"region", "postcode"}, {"country", "region"}}

\* C29: for a feature that has a center, flyToFeature takes the fit-bounds
\* flow exactly when the feature has a 4-element bounding box and none of its
\* place types is address, poi, district, neighborhood or postcode, and the
\* center/zoom flow in every other case; the final animation of the
\* fit-bounds flow has pitch 0 and bearing 0 and the zoom of the looked-up
\* camera as its ceiling.
C29_FlowSelection ==
  \A types \in TypeLists, bbox, hasLayer \in BOOLEAN :
    LET feature == Feature(quickLocations[1], types, bbox)
        cam == getCameraForFeature(feature)
        small == types \cap {"address", "poi", "district", "neighborhood", "postcode"} # {}
        s1 == flyToFeature(St, feature, hasLayer)
        s2 == IF projection = "globe" THEN fireMoveEnd(s1, hasLayer) ELSE s1
        waiting == {l.kind : l \in pendingFinals(s1.moveendListeners)}
    IN /\ (bbox /\ ~small) =>
            /\ projection = "globe" => waiting = {"runFinalBounds"}
            /\ s2.moving /\ s2.camera = Camera("fitBounds", feature.text, cam.zoom, 0, 0)
       /\ ~(bbox /\ ~small) =>
            /\ projection = "globe" => waiting = {"runFinalFly"}
            /\ s2.moving
            /\ s2.camera = Camera("flyTo", feature.text, cam.zoom,
                                  IF small /\ ~isMobile THEN cam.pitch ELSE 0,
                                  IF small /\ ~isMobile THEN cam.bearing ELSE 0)

\* The final phase of the fit-bounds flow has started its animation after the
\* completion signal of the approach animation.
C29_Witness ==
  /\ lastOp.op = "moveend" /\ moving
  /\ camera.op = "fitBounds" /\ camera.pitch = 0 /\ camera.bearing = 0
  /\ camera.zoom = getCameraForFeature(geocodeFeature("q")).zoom

(***************************************************************************)
(* The camera lookup.  Zooms are in tenths.                                *)
(***************************************************************************)
\* Any feature may be the one a caller is about to look a camera up for: a
\* feature is what a provider answered, with any list of place types, with
\* or without a bounding box.
InitCameraLookup ==
  /\ Constructed /\ mapRef = TRUE /\ ~isMobile /\ ~googleApiKey
  /\ Unclassified /\ Unanswered
  /\ \E text \in {"london", "350 5th ave"}, types \in SUBSET PlaceTypes, bbox \in BOOLEAN :
       cameraForFeature = [feature |-> Feature(text, types, bbox),
                           camera |-> [zoom |-> 0, pitch |-> 0, bearing |-> 0]]

\* Line 1172: flyToFeature looks the camera of its feature up.
LookUpCamera ==
  /\ cameraForFeature.camera.zoom = 0
  /\ Commit([St EXCEPT !.cameraForFeature.camera = getCameraForFeature(cameraForFeature.feature)])

NextCameraLookup == LookUpCamera

CameraLookupSpec == InitCameraLookup /\ [][NextCameraLookup]_vars

\* The lookup as it is stated: the rules in their order, and the camera of
\* a feature that matches none.
cameraRules ==
  << [tags |-> {"address", "poi"}, camera |-> [zoom |-> 152, pitch |-> 60, bearing |-> 20]],
     [tags |-> {"district", "neighborhood", "postcode"},
      camera |-> [zoom |-> 148, pitch |-> 58, bearing |-> 20]],
     [tags |-> {"place", "locality"}, camera |-> [zoom |-> 102, pitch |-> 0, bearing |-> 0]],
     [tags |-> {"region"}, camera |-> [zoom |-> 67, pitch |-> 0, bearing |-> 0]],
     [tags |-> {"country"}, camera |-> [zoom |-> 48, pitch |-> 0, bearing |-> 0]] >>

firstMatchingRule(types) ==
  LET matching == {i \in 1..Len(cameraRules) : cameraRules[i].tags \cap types # {}}
  IN IF matching = {} THEN [zoom |-> 120, pitch |-> 0, bearing |-> 0]
     ELSE cameraRules[CHOOSE i \in matching : \A j \in matching : i <= j].camera

\* C30: the camera looked up for a feature is the camera of the first rule,
\* in the stated order, that one of the feature's place types matches, and
\* the camera (12.0, 0, 0) when none matches: it depends on the place types
\* alone.
C30_CameraLookup ==
  cameraForFeature.camera.zoom # 0 =>
    cameraForFeature.camera = firstMatchingRule(cameraForFeature.feature.place_type)

\* The camera of a feature tagged as a country, a place and a postcode has
\* been looked up: it is the camera of the postcode.
C30_Witness ==
  /\ cameraForFeature.feature.place_type = {"country", "place", "postcode"}
  /\ cameraForFeature.camera = [zoom |-> 148, pitch |-> 58, bearing |-> 20]

(***************************************************************************)
(* Termination of camera transitions.                                      *)
(***************************************************************************)
TypeLandmark == Type("msg")

\* Navigation by result rows (quick locations of the empty query, the
\* landmark of "msg"), the returns to the globe and the signals of the
\* render surface.
NextTransition ==
  \/ CommandK
  \/ Escape
  \/ TypeLandmark
  \/ ClickResult
  \/ MoveEnd
  \/ Idle

\* The conditions under which a MoveEnd step and an Idle step can be taken.
SignalsEnabled ==
  /\ (ENABLED <<MoveEnd>>_vars) <=> (~reloaded /\ moving)
  /\ (ENABLED <<Idle>>_vars) <=> (~reloaded /\ ~moving /\ idleListeners # <<>>)

\* The render surface signals the end of every animation it started, and
\* idle once it has come to rest: WF_vars(MoveEnd) /\ WF_vars(Idle), each
\* written as "infinitely often disabled or infinitely often taken" with the
\* enabling condition of SignalsEnabled in the place of ENABLED.
SignalsArrive ==
  /\ []<>(reloaded \/ ~moving) \/ []<><<MoveEnd>>_vars
  /\ []<>(reloaded \/ moving \/ idleListeners = <<>>) \/ []<><<Idle>>_vars

TransitionSpec == Init /\ [][NextTransition]_vars /\ SignalsArrive

\* The completion callbacks of the transition of generation g that are still
\* registered with the render surface.
callbacksOf(g) ==
  {l \in pendingFinals(moveendListeners) : l.gen = g}
    \cup {moveendListeners[i] : i \in {j \in 1..Len(moveendListeners) :
                                         /\ moveendListeners[j].kind = "spin"
                                         /\ moveendListeners[j].gen = g}}
    \cup {idleListeners[i] : i \in {j \in 1..Len(idleListeners) : idleListeners[j].gen = g}}

\* What a callback can reach of the render surface.
surfaceOf(s) ==
  [camera |-> s.camera, moving |-> s.moving, projection |-> s.projection,
   padding |-> s.padding, moveendListeners |-> s.moveendListeners,
   idleListeners |-> s.idleListeners]

\* C31: when the render surface signals the end of every animation (and
\* idle after it), every camera transition becomes terminal: its chain of
\* callbacks has run to the end, or a newer transition has superseded it (on
\* a touch device, or the page was reloaded).  In every reachable state only
\* the callbacks of the transition of the current generation can still make
\* render-surface calls.
C31_TransitionsTerminate ==
  /\ \A g \in 1..MaxGen :
       (cameraTransitionRef = g)
         ~> (cameraTransitionRef # g \/ reloaded \/ (callbacksOf(g) = {} /\ ~moving))
  /\ [](\A g \in 0..MaxGen, hasLayer \in BOOLEAN :
          g # cameraTransitionRef =>
            \A l \in callbacksOf(g) :
              surfaceOf(IF l.kind = "idle" THEN onIdle(St, l, hasLayer)
                        ELSE runListener(St, l, hasLayer)) = surfaceOf(St))

\* The chain of a 3D close-up has run to its end: approach, final animation
\* and the idle callback that highlights the building.
C31_Witness ==
  /\ lastOp.op = "idle" /\ lastOp.standing = "current"
  /\ callbacksOf(cameraTransitionRef) = {} /\ ~moving
  /\ highlightedBuildingRef # ""

(***************************************************************************)
(* The displayed result list.                                              *)
(***************************************************************************)
\* Live suggestions for a query that matches a landmark and for one that
\* matches a quick location.
NextDisplay ==
  \/ CommandK
  \/ BackdropMouseDown
  \/ CloseAnimationDone
  \/ TypeLondon
  \/ TypeLandmark
  \/ DebounceElapsed
  \/ SuggestionsFetched

DisplaySpec == InitDesktop /\ [][NextDisplay]_vars

\* The place of a kind of row in the display priority.
priority(kind) ==
  CASE kind = "landmark" -> 1
    [] kind = "dynamic" -> 2
    [] kind = "quick" -> 3

\* C32: for a non-empty query, every landmark override of the displayed
\* result list comes before every dynamic suggestion of it, and every dynamic
\* suggestion before every quick location.
C32_DisplayPriority ==
  query # "" =>
    LET rows == displayResults(St)
    IN \A i, j \in 1..Len(rows) :
         i < j => priority(rows[i].kind) <= priority(rows[j].kind)

\* The list for "london" shows a dynamic suggestion and, behind it, the
\* quick location London.
C32_Witness ==
  /\ query = "london" /\ renderSearch /\ dynamicSuggestions # <<>>
  /\ LET rows == displayResults(St)
     IN /\ Len(rows) >= 2
        /\ rows[1].kind = "dynamic"
        /\ rows[Len(rows)] = QuickResult("London")

\* C33: a suggestion fetch whose primary provider call failed (an error
\* response or a transport failure) or whose signal was aborted stores no
\* entry in the suggestion cache.
C33_FailedFetchStoresNothing ==
  [][(lastOp'.op = "afterFetch" /\ lastOp'.outcome \in {"http", "fail", "aborted"})
       => suggestionsCacheRef' = suggestionsCacheRef]_vars

\* C34: the response to a place lookup that is no longer the last one issued
\* (a lookup for another place was issued after it, or a return to the globe
\* cleared the panel) sets neither the panel location nor the panel-open
\* flag.
C34_StaleLookupSetsNothing ==
  [][\A name \in eventLookups :
       (lastOp'.op = "lookupDone" /\ name \notin eventLookups'
          /\ name # lastEventsLookupRef)
         => /\ eventsModalLocation' = eventsModalLocation
            /\ isEventsModalOpen' = isEventsModalOpen]_vars

\* C35: every submit that starts a camera transition to a resolved feature
\* (answered by a provider call or read from the resolved-feature cache)
\* leaves that feature as the last place lookup issued.
resolvedNames == {geocodeFeature("q").text, googleFeature("q").text}

C35_ResolvedFeatureIsLookedUp ==
  [][(/\ lastOp'.op \in {NoOp.op, "resume"}
      /\ cameraTransitionRef' > cameraTransitionRef
      /\ camera'.target \in resolvedNames)
       => lastEventsLookupRef' = camera'.target]_vars

\* Leaving the onboarding screen while the user navigates: the exit
\* animation, its timer, Enter on the empty query (the first quick location)
\* and the returns to the globe.
NextExit ==
  \/ Explore
  \/ OnboardingTimer
  \/ CommandK
  \/ Escape
  \/ Submit
  \/ MoveEnd

ExitSpec == Init /\ [][NextExit]_vars

\* C36: while the last camera request is a location transition (no return
\* to the globe was requested since), the view mode is "focused", and
\* neither the request step nor a completion signal changes the padding
\* other than by the transition's own reset.
C36_FocusedUntilReturn ==
  /\ [](camera.target # "globe" => viewMode = "focused")
  /\ [][/\ (cameraTransitionRef' > cameraTransitionRef /\ camera'.target # "globe")
             => padding' \in {padding, "zero"}
        /\ (lastOp'.op = "moveend" /\ camera.target # "globe")
             => padding' = padding /\ viewMode' = viewMode]_vars

\* C37: for every fetch round that called both providers and was neither
\* aborted nor cancelled, a failure of the primary call leaves the
\* commercial provider's suggestion in the list the round displays, and a
\* failure of the commercial call leaves the primary provider's suggestion.
displayedAfter(r, primary, google) ==
  LET suggestions == afterFetch(St, r, primary, google).dynamicSuggestions
  IN {suggestions[i].src : i \in DOMAIN suggestions}

C37_OneFailureKeepsTheOther ==
  \A r \in suggestRuns :
    (r.phase = "fetch" /\ ~r.aborted /\ ~r.cancelled /\ "google" \in r.calls)
      => /\ "google" \in displayedAfter(r, "http", "ok")
         /\ "google" \in displayedAfter(r, "fail", "ok")
         /\ displayedAfter(r, "ok", "fail") \ {"google"} # {}

(***************************************************************************)
(* Completion of requests.                                                 *)
(***************************************************************************)
\* Keystrokes, submits, selections and the opening and closing of the
\* search, with the suggestion and resolve requests they start.
NextCompletion ==
  \/ CommandK
  \/ BackdropMouseDown
  \/ TypeAddress
  \/ Submit
  \/ ClickResult
  \/ DebounceElapsed
  \/ SuggestionsFetched
  \/ ResolveReturn

\* The task op, leaving the state s1, can be run and changes the state.
canRun(op, s1) ==
  LET s2 == [Effects(St, s1, FALSE) EXCEPT !.lastOp = op]
  IN Within(s2) /\ s2 # St

\* A pending request can always take its next step: the debounce timer can
\* fire, a fetch round can end (here with an error response of both
\* providers), a resolve request can go on (here with a failed call).
CallsEnabled ==
  /\ (\E r \in suggestRuns : r.phase = "debounce")
       => \E r \in suggestRuns :
            /\ r.phase = "debounce"
            /\ canRun(Op("afterDebounce", r.ctl, IF r.cancelled THEN "cancelled" ELSE "live", ""),
                      afterDebounce(St, r))
  /\ (\E r \in suggestRuns : r.phase = "fetch")
       => \E r \in suggestRuns :
            /\ r.phase = "fetch"
            /\ canRun(Op("afterFetch", r.ctl, IF r.cancelled THEN "cancelled" ELSE "live",
                         IF r.aborted THEN "aborted" ELSE "http"),
                      afterFetch(St, r, "http", "fail"))
  /\ (resolveRuns # {})
       => \E r \in resolveRuns :
            canRun(Op("resume", r.ctl, standing(r), IF r.aborted THEN "aborted" ELSE "fail"),
                   resume(St, r, "fail", FALSE))

\* The debounce timer fires and every provider call completes (with a
\* result, a failure or an abort): WF_vars of the three actions, each written
\* as "infinitely often disabled or infinitely often taken"; the guards of
\* the actions and CallsEnabled give the enabling conditions.
CallsComplete ==
  /\ []<>(\A r \in suggestRuns : r.phase # "debounce") \/ []<><<DebounceElapsed>>_vars
  /\ []<>(\A r \in suggestRuns : r.phase # "fetch") \/ []<><<SuggestionsFetched>>_vars
  /\ []<>(resolveRuns = {}) \/ []<><<ResolveReturn>>_vars

CompletionSpec == InitDesktop /\ [][NextCompletion]_vars /\ CallsComplete

noRequestInFlight == resolveRuns = {} /\ suggestRuns = {}

\* C38: whenever no request is in flight both loading indicators are off,
\* and, every provider call completing, a state with no request in flight is
\* reached again and again.
C38_IndicatorsClear ==
  /\ [](noRequestInFlight => ~isSearching /\ ~isSuggesting)
  /\ []<>noRequestInFlight

\* Both indicators were on, the requests completed while the user went on,
\* and both are off again.
C38_Witness ==
  /\ noRequestInFlight
  /\ nextSuggestCtl > 1 /\ nextSearchCtl > 1
  /\ ~isSearching /\ ~isSuggesting
  /\ lastOp.op \in {"resume", "afterFetch"} /\ lastOp.standing = "live"

(***************************************************************************)
(* Closing the search.                                                     *)
(***************************************************************************)
\* Live suggestions while the search is opened and closed in each of the
\* four ways: the toggle, Escape, the backdrop and a navigation.
NextClose ==
  \/ CommandK
  \/ Escape
  \/ BackdropMouseDown
  \/ TypeLon
  \/ ClickResult
  \/ DebounceElapsed
  \/ SuggestionsFetched

CloseSpec == InitDesktop /\ [][NextClose]_vars

\* C39: a step that closes the search leaves the list of live suggestions
\* empty, no active suggestion controller, the controller that was active
\* aborted and every pending suggestion request cancelled; a cancelled
\* request writes neither the list nor the suggestion cache.
C39_CloseStopsSuggestions ==
  [][/\ (isSearchOpen /\ ~isSearchOpen')
          => /\ dynamicSuggestions' = <<>>
             /\ suggestionAbortRef' = NoCtl
             /\ \A r \in suggestRuns' :
                  r.cancelled /\ (r.ctl = suggestionAbortRef => r.aborted)
     /\ (lastOp'.op \in {"afterDebounce", "afterFetch"} /\ lastOp'.standing = "cancelled")
          => /\ dynamicSuggestions' = dynamicSuggestions
             /\ suggestionsCacheRef' = suggestionsCacheRef]_vars

\* The search was closed while a suggestion request was fetching, and the
\* request has ended since with a provider answer that was written nowhere.
C39_Witness ==
  /\ ~isSearchOpen
  /\ lastOp.op = "afterFetch" /\ lastOp.standing = "cancelled" /\ lastOp.outcome = "aborted"
  /\ dynamicSuggestions = <<>>
  /\ ~suggestionsCacheRef["lon"].present

====
